---- MODULE Spec2Model ----
(***************************************************************************)
(* Verification model of gedons/go_VPN: the AEAD codec (internal/crypto),  *)
(* the multi-peer server (cmd/server) with its peer registry, eviction     *)
(* sweep and shutdown, the pkg/vpn Client and Server started by the gocli  *)
(* command, the single-peer server (server/main.go) and the client with    *)
(* connection retry (client/main.go).                                      *)
(*                                                                         *)
(* Time is counted in minutes (the period of the server's cleanup ticker)  *)
(* on a clock whose origin is the present: time.Now() is 0 and a stored    *)
(* timestamp is the negated number of minutes since it was taken. An age   *)
(* beyond the client timeout is kept as timeout + 1, the code comparing    *)
(* ages with the timeout only.                                             *)
(***************************************************************************)
EXTENDS Integers, Sequences, FiniteSets, TLC

VARIABLES
    ctxDone,    \* the context (s.ctx / c.ctx) has been cancelled
    udpConn,    \* transport handle: "nil", "open" or "closed"
    tunManager, \* interface handle: "nil", "open" or "closed"
    wg,         \* the WaitGroup counter
    runPc,      \* position of the controller (VPNServer.run, or the gocli main)
    inPc,       \* position of the ingress pump (UDP to TUN)
    egPc,       \* position of the egress pump (TUN to UDP)
    clPc,       \* position of the client-cleanup goroutine
    mtPc,       \* position of the metrics goroutine
    tickerC,    \* the cleanup ticker's channel holds a tick
    clients,    \* cmd/server: s.clients, endpoint key -> pointer into heap
    heap,       \* cmd/server: the ClientInfo records ever allocated
    enc,        \* egress pump local: the sealed frame being sent
    snap,       \* egress pump local: the slice of record pointers copied under RLock
    snapIdx,    \* egress pump local: index of the range loop over snap
    nRecv,      \* number of datagrams the ingress pump has received
    nRead,      \* number of ReadPacket calls that returned without error
    rx,         \* the last datagram handled by the ingress pump: its sender,
                \* whether Decrypt succeeded, whether and what WritePacket was given
    authSeen,   \* endpoints that have sent a datagram that passed authentication
    joined,     \* per endpoint, number of "New client connected" log events
    sendLog,    \* WriteToUDP calls made for the packet last read, in order
    encCalls,   \* number of Encrypt calls the egress pump has made
    packet,     \* egress pump local: the packet returned by ReadPacket
    regChanged, \* the registry was written since the snapshot was taken
    mode,       \* the program: gocli's cfg.Mode "client" or "server", "cmd" for
                \* cmd/server, "simple" for server/main.go, "reconnect" for the
                \* client with connection retry
    clientsMu,  \* pkg/vpn Server: number of read locks held on s.clientsMu
    pkgClients, \* pkg/vpn Server: s.clients, as the set of registered endpoints
    lastHeard,  \* pkg/vpn Server: per endpoint, time of its last datagram
    stopPc,     \* pkg/vpn: position inside Stop()
    stopCalls,  \* pkg/vpn: number of Stop() calls that have returned
    closeCalls, \* per handle, number of Close() calls made on it
    ioAfterClose, \* a pump used a handle after Close() was called on it
    stopBlocked, \* the running Stop() was called with both pumps blocked in I/O
    clientAddr, \* server/main.go: the clientAddr variable shared by both loops
    connI,      \* client: loop variable i of connectWithRetry
    dials,      \* client: number of DialTimeout calls made
    sleeps,     \* client: number of time.Sleep(ReconnectDelay) calls completed
    elapsed,    \* client: seconds spent in connectWithRetry's sleeps
    connId,     \* client: the dial attempt c.udpConn comes from (0: none)
    reconnectCh, \* client: c.reconnectCh holds a token
    runErr,     \* client: the error run() returned ("nil" if none)
    codecPlain, \* codec: the plaintext handed to Encrypt
    codecRnd,   \* codec: the bytes rand.Reader delivers to Encrypt
    codecFrame, \* codec: the bytes handed to Decrypt
    codecResult,\* codec: what the last call returned, [err, data]
    codecPc,    \* codec: "idle" | "input" | "sealed" | "failed" | "opened"
    codecKind,  \* codec: "none" | "sealed" | "tampered" | "short"
    txSeq,      \* client: read numbers of the packets handed to Write
    ifSeq,      \* client: receive numbers of the datagrams handed to WritePacket
    laddr       \* pkg/vpn: the address the socket is on: "none" | "configured" | "any"

vars == <<ctxDone, udpConn, tunManager, wg, runPc, inPc, egPc, clPc,
          mtPc, tickerC, clients, heap, enc, snap, snapIdx, nRecv, nRead, rx,
          authSeen, joined, sendLog, encCalls, packet, regChanged, mode,
          clientsMu, pkgClients, lastHeard, stopPc, stopCalls, closeCalls,
          ioAfterClose, stopBlocked, clientAddr, connI, dials, sleeps,
          elapsed, connId, reconnectCh, runErr, codecPlain, codecRnd,
          codecFrame, codecResult, codecPc, codecKind, txSeq, ifSeq, laddr>>

\* variables of the pkg/vpn programs only
pkgVars == <<mode, clientsMu, pkgClients, lastHeard, stopPc, stopCalls,
             closeCalls, ioAfterClose, stopBlocked>>

\* variables of server/main.go and of the reconnecting client only
cliVars == <<clientAddr, connI, dials, sleeps, elapsed, connId, reconnectCh,
             runErr>>

\* variables of the cmd/server registry only
regVars == <<clients, heap, joined, tickerC, clPc, mtPc>>

\* variables of the codec exercised on its own
codecVars == <<codecPlain, codecRnd, codecFrame, codecResult, codecPc,
               codecKind>>

\* the order records of the reconnecting client
seqVars == <<txSeq, ifSeq>>

-----------------------------------------------------------------------------
(* Bounds of the model *)

MaxRecv == 2
MaxRead == 1
MaxClientRead == 2

(* Program constants *)

NonceSize == 12
TagSize == 16
ClientTimeoutDuration == 5
CleanupInterval == 1
Now == 0

Endpoints == {"A", "B"}
Packets == {<<1, 2>>}
NoPacket == <<>>
PSK == 7

-----------------------------------------------------------------------------
(* internal/crypto: the AEAD codec.  AES-GCM is modelled by a keyed        *)
(* additive stream and a keyed position-weighted checksum as the tag.      *)

RECURSIVE WSum(_, _)
WSum(s, i) == IF i > Len(s) THEN 0 ELSE i * s[i] + WSum(s, i + 1)

NonceOf(b) == [i \in 1..NonceSize |-> b]
Nonces == {NonceOf(5), NonceOf(9)}

KeyStream(key, nonce, i) == (key + nonce[1] + 3 * i) % 256

\* a tag that covers the nonce only
Mac_noCiphertext(key, nonce, ct) ==
    LET v == (key + WSum(nonce, 1)) % 257
    IN  [j \in 1..TagSize |-> IF j = 1 THEN v % 256
                              ELSE IF j = 2 THEN v \div 256
                              ELSE (key + j) % 256]

Mac(key, nonce, ct) ==
    LET v == (key + WSum(nonce \o ct, 1)) % 257
    IN  [j \in 1..TagSize |-> IF j = 1 THEN v % 256
                              ELSE IF j = 2 THEN v \div 256
                              ELSE (key + j) % 256]

\* gcm.Seal(dst, nonce, plaintext, nil): dst || ciphertext || tag
Seal(dst, nonce, plaintext) ==
    LET ct == [i \in 1..Len(plaintext) |->
                  (plaintext[i] + KeyStream(PSK, nonce, i)) % 256]
    IN  dst \o ct \o Mac(PSK, nonce, ct)

\* gcm.Open(nil, nonce, ciphertext, nil)
Open(nonce, ciphertext) ==
    IF Len(ciphertext) < TagSize
    THEN [err |-> "AuthenticationFailed", data |-> <<>>]
    ELSE LET n  == Len(ciphertext) - TagSize
             ct == SubSeq(ciphertext, 1, n)
             tg == SubSeq(ciphertext, n + 1, Len(ciphertext))
         IN  IF tg # Mac(PSK, nonce, ct)
             THEN [err |-> "AuthenticationFailed", data |-> <<>>]
             ELSE [err |-> "nil",
                   data |-> [i \in 1..n |->
                       (ct[i] + 256 - KeyStream(PSK, nonce, i)) % 256]]

\* what rand.Reader delivers when it fails: fewer bytes than asked for
RandFail == <<>>

\* Encrypt sealing into an empty dst: the frame lacks its nonce prefix
Encrypt_noPrefix(plaintext, rnd) ==
    IF Len(rnd) < NonceSize
    THEN [err |-> "RandError", data |-> <<>>]
    ELSE [err |-> "nil", data |-> Seal(<<>>, rnd, plaintext)]

\* Cipher.Encrypt; rnd is the bytes io.ReadFull obtained from rand.Reader
Encrypt(plaintext, rnd) ==
    IF Len(rnd) < NonceSize
    THEN [err |-> "RandError", data |-> <<>>]
    ELSE [err |-> "nil", data |-> Seal(rnd, rnd, plaintext)]

\* Decrypt without its length check: the open is attempted on any input
Decrypt_noLengthCheck(ciphertext) ==
    IF Len(ciphertext) < NonceSize
    THEN Open(ciphertext, <<>>)
    ELSE Open(SubSeq(ciphertext, 1, NonceSize),
              SubSeq(ciphertext, NonceSize + 1, Len(ciphertext)))

\* Decrypt splitting one byte behind the nonce
Decrypt_splitOffByOne(ciphertext) ==
    IF Len(ciphertext) < NonceSize
    THEN [err |-> "ErrUnexpectedEOF", data |-> <<>>]
    ELSE Open(SubSeq(ciphertext, 1, NonceSize),
              SubSeq(ciphertext, NonceSize + 2, Len(ciphertext)))

\* Cipher.Decrypt
Decrypt(ciphertext) ==
    IF Len(ciphertext) < NonceSize
    THEN [err |-> "ErrUnexpectedEOF", data |-> <<>>]
    ELSE Open(SubSeq(ciphertext, 1, NonceSize),
              SubSeq(ciphertext, NonceSize + 1, Len(ciphertext)))

\* the frames the network can deliver: sealed by a peer holding the key,
\* a sealed frame with its last tag byte altered, and a runt
ValidFrames == {Encrypt(p, n).data : p \in Packets, n \in Nonces}
ForgedFrame ==
    LET f == Encrypt(<<1, 2>>, NonceOf(5)).data
    IN  [f EXCEPT ![Len(f)] = (f[Len(f)] + 1) % 256]
ShortFrame == <<1, 2, 3>>
Datagrams == ValidFrames \cup {ForgedFrame, ShortFrame}

NonceOfFrame(f) == SubSeq(f, 1, NonceSize)

-----------------------------------------------------------------------------
(* cmd/server: the peer registry *)

\* make(map[string]*ClientInfo): the empty registry
EmptyMap == [k \in {} |-> 0]

\* the ClientInfo literal built by updateClient for an unknown endpoint
NewClientInfo(addr, t) ==
    [addr |-> addr, lastSeen |-> t, packetsSent |-> 0, packetsRecv |-> 1]

\* updateClient announcing a client on every datagram
updateClient_everyLog(c, h, addr, t) ==
    IF addr \in DOMAIN c
    THEN [clients |-> c,
          heap    |-> [h EXCEPT ![c[addr]].lastSeen = t,
                                ![c[addr]].packetsRecv = @ + 1],
          logged  |-> TRUE]
    ELSE [clients |-> c @@ (addr :> (Len(h) + 1)),
          heap    |-> Append(h, NewClientInfo(addr, t)),
          logged  |-> TRUE]

\* updateClient re-linking the old record of an endpoint that was evicted
updateClient_resurrect(c, h, addr, t) ==
    LET old == {i \in 1..Len(h) : h[i].addr = addr}
    IN  IF addr \in DOMAIN c
        THEN [clients |-> c,
              heap    |-> [h EXCEPT ![c[addr]].lastSeen = t,
                                    ![c[addr]].packetsRecv = @ + 1],
              logged  |-> FALSE]
        ELSE IF old # {}
        THEN LET i == CHOOSE i \in old : TRUE
             IN  [clients |-> c @@ (addr :> i),
                  heap    |-> [h EXCEPT ![i].lastSeen = t,
                                        ![i].packetsRecv = @ + 1],
                  logged  |-> TRUE]
        ELSE [clients |-> c @@ (addr :> (Len(h) + 1)),
              heap    |-> Append(h, NewClientInfo(addr, t)),
              logged  |-> TRUE]

\* VPNServer.updateClient on registry map c and records h at time t;
\* logged tells whether "New client connected" was logged
updateClient(c, h, addr, t) ==
    IF addr \in DOMAIN c
    THEN [clients |-> c,
          heap    |-> [h EXCEPT ![c[addr]].lastSeen = t,
                                ![c[addr]].packetsRecv = @ + 1],
          logged  |-> FALSE]
    ELSE [clients |-> c @@ (addr :> (Len(h) + 1)),
          heap    |-> Append(h, NewClientInfo(addr, t)),
          logged  |-> TRUE]

\* cleanupStaleClients comparing with >= instead of >
cleanupStaleClients_atTimeout(c, h, t) ==
    LET keep == {k \in DOMAIN c : ~(t - h[c[k]].lastSeen >= ClientTimeoutDuration)}
    IN  [k \in keep |-> c[k]]

\* VPNServer.cleanupStaleClients: the map left by the sweep at time t
cleanupStaleClients(c, h, t) ==
    LET keep == {k \in DOMAIN c : ~(t - h[c[k]].lastSeen > ClientTimeoutDuration)}
    IN  [k \in keep |-> c[k]]

\* the orders in which a range over map c can visit its values
RangeOrders(c) ==
    LET n == Cardinality(DOMAIN c)
    IN  {[i \in 1..n |-> c[ks[i]]] :
            ks \in {f \in [1..n -> DOMAIN c] :
                       \A i, j \in 1..n : i # j => f[i] # f[j]}}

\* broadcastToClients, lines 376-381: the slice copied under the read lock
Snapshot(c) == RangeOrders(c)

\* a loop top that returns although nothing was cancelled
LoopTop_exitEarly(pc) == "exited"

\* a pump's loop going on to its read whether or not the context is done
LoopTop_ignoreCtx(pc) == "read"

\* a pump's select on ctx.Done() at the top of its loop
LoopTop(pc) == IF ctxDone THEN "exited" ELSE "read"

\* the range loop of broadcastToClients ending one element early
NextSend_skipLast(i, s) == IF i + 1 >= Len(s) THEN "top" ELSE "send"

\* next position of the range loop of broadcastToClients
NextSend(i, s) == IF i + 1 > Len(s) THEN "top" ELSE "send"

-----------------------------------------------------------------------------
(* cmd/server: VPNServer.run and the goroutines it starts *)

\* rx before a datagram has been handled
NoDatagram == [from |-> "none", ok |-> FALSE, wrote |-> FALSE]

\* the variables of server/main.go and of the reconnecting client before
\* either program has run
\* no codec call has been made on its own, nothing has been forwarded
InitCodecVars ==
    /\ codecPlain = <<>>
    /\ codecRnd = <<>>
    /\ codecFrame = <<>>
    /\ codecResult = [err |-> "nil", data |-> <<>>]
    /\ codecPc = "idle"
    /\ codecKind = "none"

InitSeqVars ==
    /\ txSeq = <<>>
    /\ ifSeq = <<>>

InitCliVars ==
    /\ clientAddr = "zero"
    /\ connI = 0
    /\ dials = 0
    /\ sleeps = 0
    /\ elapsed = 0
    /\ connId = 0
    /\ reconnectCh = FALSE
    /\ runErr = "nil"

InitServer ==
    /\ InitCliVars
    /\ InitCodecVars
    /\ InitSeqVars
    /\ laddr = "none"
    /\ ctxDone = FALSE
    /\ udpConn = "nil"
    /\ tunManager = "nil"
    /\ wg = 0
    /\ runPc = "crypto"
    /\ inPc = "idle"
    /\ egPc = "idle"
    /\ clPc = "idle"
    /\ mtPc = "idle"
    /\ tickerC = FALSE
    /\ clients = EmptyMap
    /\ heap = <<>>
    /\ enc = <<>>
    /\ snap = <<>>
    /\ snapIdx = 1
    /\ nRecv = 0
    /\ nRead = 0
    /\ rx = NoDatagram
    /\ authSeen = {}
    /\ joined = [e \in Endpoints |-> 0]
    /\ sendLog = <<>>
    /\ encCalls = 0
    /\ packet = <<>>
    /\ regChanged = TRUE
    /\ mode = "cmd"
    /\ clientsMu = 0
    /\ pkgClients = {}
    /\ lastHeard = [e \in Endpoints |-> 0]
    /\ stopPc = "idle"
    /\ stopCalls = 0
    /\ closeCalls = [h \in {"udp", "tun"} |-> 0]
    /\ ioAfterClose = FALSE
    /\ stopBlocked = FALSE

\* the signal goroutine of setupSignalHandling: s.cancel()
Cancel ==
    /\ mode = "cmd"
    /\ ~ctxDone
    /\ runPc # "returned"
    /\ ctxDone' = TRUE
    /\ UNCHANGED <<udpConn, tunManager, wg, runPc, inPc, egPc, enc, snap,
                   snapIdx, nRecv, nRead, rx, authSeen, sendLog,
                   encCalls, packet, regChanged>>
    /\ UNCHANGED regVars
    /\ UNCHANGED pkgVars
    /\ UNCHANGED cliVars
    /\ UNCHANGED <<codecVars, seqVars, laddr>>

\* run, lines 147-154: crypto.NewCipher succeeds or run returns its error
RunCrypto ==
    /\ runPc = "crypto"
    /\ \E ok \in BOOLEAN :
          runPc' = IF ok THEN "tunnel" ELSE "returned"
    /\ UNCHANGED <<ctxDone, udpConn, tunManager, wg, inPc, egPc, enc, snap,
                   snapIdx, nRecv, nRead, rx, authSeen, sendLog,
                   encCalls, packet, regChanged>>
    /\ UNCHANGED regVars
    /\ UNCHANGED pkgVars
    /\ UNCHANGED cliVars
    /\ UNCHANGED <<codecVars, seqVars, laddr>>

\* run, lines 156-162: setupTunnel
RunTunnel ==
    /\ runPc = "tunnel"
    /\ \E ok \in BOOLEAN :
          /\ runPc' = IF ok THEN "udp" ELSE "returned"
          /\ tunManager' = IF ok THEN "open" ELSE tunManager
    /\ UNCHANGED <<ctxDone, udpConn, wg, inPc, egPc, enc, snap,
                   snapIdx, nRecv, nRead, rx, authSeen, sendLog,
                   encCalls, packet, regChanged>>
    /\ UNCHANGED regVars
    /\ UNCHANGED pkgVars
    /\ UNCHANGED cliVars
    /\ UNCHANGED <<codecVars, seqVars, laddr>>

\* cleanup leaving the interface open
cleanup_leakTun(u, t, cc) ==
    [udpConn    |-> IF u # "nil" THEN "closed" ELSE u,
     tunManager |-> t,
     closeCalls |-> [h \in {"udp", "tun"} |->
                        IF h = "udp" /\ u # "nil" THEN cc[h] + 1 ELSE cc[h]]]

\* cleanup leaving the UDP socket open
cleanup_leakUDP(u, t, cc) ==
    [udpConn    |-> u,
     tunManager |-> IF t # "nil" THEN "closed" ELSE t,
     closeCalls |-> [h \in {"udp", "tun"} |->
                        IF h = "tun" /\ t # "nil" THEN cc[h] + 1 ELSE cc[h]]]

\* VPNServer.cleanup on handles u (udpConn) and t (tunManager):
\* Close() on each handle that is set
cleanup(u, t, cc) ==
    [udpConn    |-> IF u # "nil" THEN "closed" ELSE u,
     tunManager |-> IF t # "nil" THEN "closed" ELSE t,
     closeCalls |-> [h \in {"udp", "tun"} |->
                        IF (h = "udp" /\ u # "nil") \/ (h = "tun" /\ t # "nil")
                        THEN cc[h] + 1 ELSE cc[h]]]

\* run, lines 164-169: setupUDPListener; on failure the deferred cleanup
\* and the deferred s.cancel() run before the error is returned
RunUDP ==
    /\ runPc = "udp"
    /\ \E ok \in BOOLEAN :
          IF ok
          THEN /\ udpConn' = "open"
               /\ runPc' = "spawn"
               /\ UNCHANGED <<tunManager, closeCalls, ctxDone>>
          ELSE LET r == cleanup(udpConn, tunManager, closeCalls)
               IN  /\ udpConn' = r.udpConn
                   /\ tunManager' = r.tunManager
                   /\ closeCalls' = r.closeCalls
                   /\ ctxDone' = TRUE
                   /\ runPc' = "returned"
    /\ UNCHANGED <<wg, inPc, egPc, enc, snap,
                   snapIdx, nRecv, nRead, rx, authSeen, sendLog,
                   encCalls, packet, regChanged>>
    /\ UNCHANGED regVars
    /\ UNCHANGED <<mode, clientsMu, pkgClients, lastHeard, stopPc, stopCalls,
                   ioAfterClose, stopBlocked>>
    /\ UNCHANGED cliVars
    /\ UNCHANGED <<codecVars, seqVars, laddr>>

\* run, lines 171-177: startPacketForwarding, startMetricsReporting and
\* startClientCleanup, each adding its goroutines to the WaitGroup
RunSpawn ==
    /\ runPc = "spawn"
    /\ wg' = wg + 4
    /\ inPc' = "top"
    /\ egPc' = "top"
    /\ mtPc' = "wait"
    /\ clPc' = "wait"
    /\ runPc' = "wait"
    /\ UNCHANGED <<ctxDone, udpConn, tunManager, enc, snap,
                   snapIdx, nRecv, nRead, rx, authSeen, sendLog,
                   encCalls, packet, regChanged, clients, heap, joined, tickerC>>
    /\ UNCHANGED pkgVars
    /\ UNCHANGED cliVars
    /\ UNCHANGED <<codecVars, seqVars, laddr>>

\* run, lines 182-186: s.wg.Wait() returns, then the deferred cleanup and cancel
RunWait ==
    /\ runPc = "wait"
    /\ wg = 0
    /\ LET r == cleanup(udpConn, tunManager, closeCalls)
       IN  /\ udpConn' = r.udpConn
           /\ tunManager' = r.tunManager
           /\ closeCalls' = r.closeCalls
    /\ ctxDone' = TRUE
    /\ runPc' = "returned"
    /\ UNCHANGED <<wg, inPc, egPc, enc, snap,
                   snapIdx, nRecv, nRead, rx, authSeen, sendLog,
                   encCalls, packet, regChanged>>
    /\ UNCHANGED regVars
    /\ UNCHANGED <<mode, clientsMu, pkgClients, lastHeard, stopPc, stopCalls,
                   ioAfterClose, stopBlocked>>
    /\ UNCHANGED cliVars
    /\ UNCHANGED <<codecVars, seqVars, laddr>>

\* the records h one ticker period later: every timestamp recedes
Elapse(h) ==
    [i \in 1..Len(h) |->
        [h[i] EXCEPT !.lastSeen =
            IF Now - (@ - CleanupInterval) > ClientTimeoutDuration + 1
            THEN @ ELSE @ - CleanupInterval]]

\* a minute passes while the pumps are blocked in I/O (or have exited);
\* a running cleanup ticker delivers a tick
Tick ==
    /\ mode = "cmd"
    /\ runPc = "wait"
    /\ inPc \in {"read", "exited"}
    /\ egPc \in {"read", "exited"}
    /\ heap' = Elapse(heap)
    /\ tickerC' = IF clPc = "wait" THEN TRUE ELSE tickerC
    /\ heap' # heap \/ tickerC' # tickerC
    /\ UNCHANGED <<ctxDone, udpConn, tunManager, wg, runPc, inPc, egPc, enc, snap,
                   snapIdx, nRecv, nRead, rx, authSeen, sendLog,
                   encCalls, packet, regChanged, clients, joined, clPc, mtPc>>
    /\ UNCHANGED pkgVars
    /\ UNCHANGED cliVars
    /\ UNCHANGED <<codecVars, seqVars, laddr>>

-----------------------------------------------------------------------------
(* cmd/server: the ingress pump, VPNServer.forwardUDPToTun *)

\* lines 295-303: the select on s.ctx.Done() at the top of the loop, then
\* the call of ReadFromUDP; what the previous iteration observed is forgotten
ForwardUDPToTunTop ==
    /\ mode = "cmd"
    /\ inPc = "top"
    /\ inPc' = LoopTop(inPc)
    /\ wg' = IF inPc' = "exited" THEN wg - 1 ELSE wg
    /\ rx' = NoDatagram
    /\ ioAfterClose' = (ioAfterClose \/ (~ctxDone /\ udpConn = "closed"))
    /\ UNCHANGED <<ctxDone, udpConn, tunManager, runPc, egPc, enc, snap,
                   snapIdx, nRecv, nRead, authSeen, sendLog,
                   encCalls, packet, regChanged>>
    /\ UNCHANGED regVars
    /\ UNCHANGED <<mode, clientsMu, pkgClients, lastHeard, stopPc, stopCalls,
                   closeCalls, stopBlocked>>
    /\ UNCHANGED cliVars
    /\ UNCHANGED <<codecVars, seqVars, laddr>>

\* lines 302-310: ReadFromUDP ends with the one-second timeout or an error
ForwardUDPToTunNoData ==
    /\ mode = "cmd"
    /\ inPc = "read"
    /\ inPc' = "top"
    /\ UNCHANGED <<ctxDone, udpConn, tunManager, wg, runPc, egPc, enc, snap,
                   snapIdx, nRecv, nRead, rx, authSeen, sendLog,
                   encCalls, packet, regChanged>>
    /\ UNCHANGED regVars
    /\ UNCHANGED pkgVars
    /\ UNCHANGED cliVars
    /\ UNCHANGED <<codecVars, seqVars, laddr>>

\* lines 303-323: ReadFromUDP returns datagram d from addr; updateClient,
\* Decrypt, and WritePacket when Decrypt succeeded
ForwardUDPToTunRecv ==
    /\ mode = "cmd"
    /\ inPc = "read"
    /\ udpConn = "open"
    /\ nRecv < MaxRecv
    /\ \E addr \in Endpoints, d \in Datagrams :
          LET u   == updateClient(clients, heap, addr, Now)
              dec == Decrypt(d)
          IN  /\ clients' = u.clients
              /\ heap' = u.heap
              /\ joined' = [joined EXCEPT ![addr] = IF u.logged THEN @ + 1 ELSE @]
              /\ authSeen' = IF dec.err = "nil" THEN authSeen \cup {addr}
                             ELSE authSeen
              /\ rx' = [from |-> addr, ok |-> dec.err = "nil",
                        wrote |-> dec.err = "nil"]
    /\ nRecv' = nRecv + 1
    /\ regChanged' = TRUE
    /\ inPc' = "top"
    /\ UNCHANGED <<ctxDone, udpConn, tunManager, wg, runPc, egPc, enc, snap,
                   snapIdx, nRead, sendLog, encCalls, packet, tickerC, clPc, mtPc>>
    /\ UNCHANGED pkgVars
    /\ UNCHANGED cliVars
    /\ UNCHANGED <<codecVars, seqVars, laddr>>

-----------------------------------------------------------------------------
(* cmd/server: the egress pump, VPNServer.forwardTunToUDP *)

\* lines 331-338: the select on s.ctx.Done() at the top of the loop, then
\* the call of ReadPacket; the locals of the previous iteration are dead
ForwardTunToUDPTop ==
    /\ mode = "cmd"
    /\ egPc = "top"
    /\ egPc' = LoopTop(egPc)
    /\ wg' = IF egPc' = "exited" THEN wg - 1 ELSE wg
    /\ packet' = <<>>
    /\ enc' = <<>>
    /\ snap' = <<>>
    /\ snapIdx' = 1
    /\ sendLog' = <<>>
    /\ regChanged' = TRUE
    /\ ioAfterClose' = (ioAfterClose \/ (~ctxDone /\ tunManager = "closed"))
    /\ UNCHANGED <<ctxDone, udpConn, tunManager, runPc, inPc,
                   nRecv, nRead, rx, authSeen, encCalls>>
    /\ UNCHANGED regVars
    /\ UNCHANGED <<mode, clientsMu, pkgClients, lastHeard, stopPc, stopCalls,
                   closeCalls, stopBlocked>>
    /\ UNCHANGED cliVars
    /\ UNCHANGED <<codecVars, seqVars, laddr>>

\* lines 338-343: ReadPacket returns an error; sleep and continue
ForwardTunToUDPReadErr ==
    /\ mode = "cmd"
    /\ egPc = "read"
    /\ egPc' = "top"
    /\ UNCHANGED <<ctxDone, udpConn, tunManager, wg, runPc, inPc, enc, snap,
                   snapIdx, nRecv, nRead, rx, authSeen, sendLog,
                   encCalls, packet, regChanged>>
    /\ UNCHANGED regVars
    /\ UNCHANGED pkgVars
    /\ UNCHANGED cliVars
    /\ UNCHANGED <<codecVars, seqVars, laddr>>

\* lines 338-349: ReadPacket returns p (<<>> when no packet is available:
\* nil data, nil error), then Encrypt with what rand.Reader delivers
ForwardTunToUDPRead ==
    /\ mode = "cmd"
    /\ egPc = "read"
    /\ tunManager = "open"
    /\ nRead < MaxRead
    /\ \E p \in Packets \cup {NoPacket}, rnd \in Nonces \cup {RandFail} :
          LET e == Encrypt(p, rnd)
          IN  /\ packet' = p
              /\ enc' = e.data
              /\ egPc' = IF e.err = "nil" THEN "snapshot" ELSE "top"
    /\ nRead' = nRead + 1
    /\ encCalls' = encCalls + 1
    /\ sendLog' = <<>>
    /\ regChanged' = TRUE
    /\ UNCHANGED <<ctxDone, udpConn, tunManager, wg, runPc, inPc, snap,
                   snapIdx, nRecv, rx, authSeen>>
    /\ UNCHANGED regVars
    /\ UNCHANGED pkgVars
    /\ UNCHANGED cliVars
    /\ UNCHANGED <<codecVars, seqVars, laddr>>

\* broadcastToClients, lines 376-381: copy the record pointers under RLock
BroadcastSnapshot ==
    /\ mode = "cmd"
    /\ egPc = "snapshot"
    /\ \E s \in Snapshot(clients) :
          /\ snap' = s
          /\ egPc' = NextSend(0, s)
    /\ snapIdx' = 1
    /\ regChanged' = FALSE
    /\ UNCHANGED <<ctxDone, udpConn, tunManager, wg, runPc, inPc, enc,
                   nRecv, nRead, rx, authSeen, sendLog, encCalls, packet>>
    /\ UNCHANGED regVars
    /\ UNCHANGED pkgVars
    /\ UNCHANGED cliVars
    /\ UNCHANGED <<codecVars, seqVars, laddr>>

\* broadcastToClients giving up the range loop when a send fails
AfterSend_stopOnError(ok, i, s) == IF ok THEN "inc" ELSE "top"

\* broadcastToClients, lines 384-390: a successful send is counted, a failed
\* one is logged and the range loop goes on
AfterSend(ok, i, s) == IF ok THEN "inc" ELSE NextSend(i, s)

\* broadcastToClients, lines 383-386: WriteToUDP(data, client.addr) for the
\* record at snapIdx, which succeeds or fails
BroadcastSend ==
    /\ mode = "cmd"
    /\ egPc = "send"
    /\ \E ok \in BOOLEAN :
          /\ sendLog' = Append(sendLog,
                 [to |-> heap[snap[snapIdx]].addr, frame |-> enc,
                  call |-> encCalls, ok |-> ok])
          /\ egPc' = AfterSend(ok, snapIdx, snap)
          /\ snapIdx' = IF ok THEN snapIdx ELSE snapIdx + 1
    /\ ioAfterClose' = (ioAfterClose \/ udpConn = "closed")
    /\ UNCHANGED <<ctxDone, udpConn, tunManager, wg, runPc, inPc, enc, snap,
                   nRecv, nRead, rx, authSeen, encCalls, packet,
                   regChanged>>
    /\ UNCHANGED regVars
    /\ UNCHANGED <<mode, clientsMu, pkgClients, lastHeard, stopPc, stopCalls,
                   closeCalls, stopBlocked>>
    /\ UNCHANGED cliVars
    /\ UNCHANGED <<codecVars, seqVars, laddr>>

\* broadcastToClients, lines 387-389: client.packetsSent++ under the lock,
\* through the pointer copied into the snapshot
BroadcastCount ==
    /\ mode = "cmd"
    /\ egPc = "inc"
    /\ heap' = [heap EXCEPT ![snap[snapIdx]].packetsSent = @ + 1]
    /\ egPc' = NextSend(snapIdx, snap)
    /\ snapIdx' = snapIdx + 1
    /\ UNCHANGED <<ctxDone, udpConn, tunManager, wg, runPc, inPc, enc, snap,
                   nRecv, nRead, rx, authSeen, sendLog, encCalls, packet,
                   regChanged, clients, joined, tickerC, clPc, mtPc>>
    /\ UNCHANGED pkgVars
    /\ UNCHANGED cliVars
    /\ UNCHANGED <<codecVars, seqVars, laddr>>

-----------------------------------------------------------------------------
(* cmd/server: the periodic goroutines *)

\* startClientCleanup, lines 405-406: a tick is received, cleanupStaleClients
CleanupSweep ==
    /\ mode = "cmd"
    /\ clPc = "wait"
    /\ tickerC
    /\ clients' = cleanupStaleClients(clients, heap, Now)
    /\ tickerC' = FALSE
    /\ regChanged' = (regChanged \/ DOMAIN clients' # DOMAIN clients)
    /\ UNCHANGED <<ctxDone, udpConn, tunManager, wg, runPc, inPc, egPc, enc,
                   snap, snapIdx, nRecv, nRead, rx, authSeen, sendLog,
                   encCalls, packet, heap, joined, clPc, mtPc>>
    /\ UNCHANGED pkgVars
    /\ UNCHANGED cliVars
    /\ UNCHANGED <<codecVars, seqVars, laddr>>

\* startClientCleanup, lines 403-404: ctx.Done() is received
CleanupExit ==
    /\ mode = "cmd"
    /\ clPc = "wait"
    /\ ctxDone
    /\ clPc' = "exited"
    /\ wg' = wg - 1
    /\ UNCHANGED <<ctxDone, udpConn, tunManager, runPc, inPc, egPc, enc,
                   snap, snapIdx, nRecv, nRead, rx, authSeen, sendLog,
                   encCalls, packet, regChanged, clients, heap, joined, tickerC,
                   mtPc>>
    /\ UNCHANGED pkgVars
    /\ UNCHANGED cliVars
    /\ UNCHANGED <<codecVars, seqVars, laddr>>

\* startMetricsReporting, lines 434-435: ctx.Done() is received
MetricsExit ==
    /\ mode = "cmd"
    /\ mtPc = "wait"
    /\ ctxDone
    /\ mtPc' = "exited"
    /\ wg' = wg - 1
    /\ UNCHANGED <<ctxDone, udpConn, tunManager, runPc, inPc, egPc, enc,
                   snap, snapIdx, nRecv, nRead, rx, authSeen, sendLog,
                   encCalls, packet, regChanged, clients, heap, joined, tickerC,
                   clPc>>
    /\ UNCHANGED pkgVars
    /\ UNCHANGED cliVars
    /\ UNCHANGED <<codecVars, seqVars, laddr>>

\* the server from its start until the shutdown signal
NextServer ==
    \/ RunCrypto
    \/ RunTunnel
    \/ RunUDP
    \/ RunSpawn
    \/ Tick
    \/ ForwardUDPToTunTop
    \/ ForwardUDPToTunNoData
    \/ ForwardUDPToTunRecv
    \/ ForwardTunToUDPTop
    \/ ForwardTunToUDPReadErr
    \/ ForwardTunToUDPRead
    \/ BroadcastSnapshot
    \/ BroadcastSend
    \/ BroadcastCount
    \/ CleanupSweep

SpecServer == InitServer /\ [][NextServer]_vars

\* the steps of VPNServer.run
ServerRun ==
    \/ RunCrypto
    \/ RunTunnel
    \/ RunUDP
    \/ RunSpawn
    \/ RunWait

\* the steps of forwardUDPToTun
ServerIngress ==
    \/ ForwardUDPToTunTop
    \/ ForwardUDPToTunNoData
    \/ ForwardUDPToTunRecv

\* the steps of forwardTunToUDP and broadcastToClients
ServerEgress ==
    \/ ForwardTunToUDPTop
    \/ ForwardTunToUDPReadErr
    \/ ForwardTunToUDPRead
    \/ BroadcastSnapshot
    \/ BroadcastSend
    \/ BroadcastCount

\* datagrams delivered to the server in the runs that end with a shutdown
MaxShutdownRecv == 1

\* forwardUDPToTun receiving at most MaxShutdownRecv datagrams
ShutdownIngress == ServerIngress /\ nRecv' <= MaxShutdownRecv

\* the server with its shutdown: the signal handler cancels the context, the
\* goroutines exit and run returns
NextServerShutdown ==
    \/ Cancel
    \/ ServerRun
    \/ ShutdownIngress
    \/ ServerEgress
    \/ Tick
    \/ CleanupSweep
    \/ CleanupExit
    \/ MetricsExit

SpecServerShutdown == InitServer /\ [][NextServerShutdown]_vars

\* every goroutine that can take a step eventually takes one, and a select
\* with ctx.Done() ready eventually takes that case
FairSpecServerShutdown ==
    /\ SpecServerShutdown
    /\ WF_vars(ServerRun)
    /\ WF_vars(ShutdownIngress)
    /\ WF_vars(ServerEgress)
    /\ WF_vars(CleanupExit)
    /\ WF_vars(MetricsExit)

-----------------------------------------------------------------------------
(* gocli: the pkg/vpn Client and Server, started and stopped through        *)
(* Start() and Stop().  mode is cfg.Mode.                                   *)

MaxStops == 2

\* the remote end of the client's connected socket
ServerEndpoint == "srv"

\* the senders a datagram can come from: any peer on the server's
\* unconnected socket, the server alone on the client's connected one
Senders == IF mode = "server" THEN Endpoints ELSE {ServerEndpoint}

\* x.Close() guarded by "if x != nil", as Stop does
CloseIfSet(h) == IF h # "nil" THEN "closed" ELSE h

\* the Close() calls counted for handle name n with state h
CountClose(cc, n, h) == IF h # "nil" THEN [cc EXCEPT ![n] = @ + 1] ELSE cc

\* Stop returning without waiting for the loops
WaitDone_noWait(w) == TRUE

\* wg.Wait() returns once the counter is zero
WaitDone(w) == w = 0

\* the orders in which a range over the set s can visit its elements
SetOrders(s) ==
    LET n == Cardinality(s)
    IN  {f \in [1..n -> s] : \A i, j \in 1..n : i # j => f[i] # f[j]}

\* a timestamp after more than the timeout has passed, relative to the
\* present
Recede(t) == Now - (ClientTimeoutDuration + 1)

InitPkg ==
    /\ InitCliVars
    /\ InitCodecVars
    /\ InitSeqVars
    /\ laddr = "none"
    /\ mode \in {"client", "server"}
    /\ ctxDone = FALSE
    /\ udpConn = "nil"
    /\ tunManager = "nil"
    /\ wg = 0
    /\ runPc = "new"
    /\ inPc = "idle"
    /\ egPc = "idle"
    /\ clPc = "idle"
    /\ mtPc = "idle"
    /\ tickerC = FALSE
    /\ clients = EmptyMap
    /\ heap = <<>>
    /\ enc = <<>>
    /\ snap = <<>>
    /\ snapIdx = 1
    /\ nRecv = 0
    /\ nRead = 0
    /\ rx = NoDatagram
    /\ authSeen = {}
    /\ joined = [e \in Endpoints |-> 0]
    /\ sendLog = <<>>
    /\ encCalls = 0
    /\ packet = <<>>
    /\ regChanged = TRUE
    /\ clientsMu = 0
    /\ pkgClients = {}
    /\ lastHeard = [e \in Endpoints |-> Now]
    /\ stopPc = "idle"
    /\ stopCalls = 0
    /\ closeCalls = [h \in {"udp", "tun"} |-> 0]
    /\ ioAfterClose = FALSE
    /\ stopBlocked = FALSE

\* Server.Start, lines 226-227: addr, _ := net.ResolveUDPAddr(...) and
\* net.ListenUDP("udp", addr). When the address does not resolve addr is nil,
\* the error is dropped, and ListenUDP binds every local address on a port
\* the system picks
ListenAddr(resolved) == IF resolved THEN "configured" ELSE "any"

\* Client.Start / Server.Start: NewCipher, SetupWintun and Dial (ListenUDP)
\* in this order; the first failure returns its error, a transport failure
\* after closing the interface; on success the two loops are started
Start ==
    /\ runPc = "new"
    /\ \E failure \in {"none", "crypto", "tun", "udp"},
          resolved \in IF mode = "server" THEN BOOLEAN ELSE {TRUE} :
          /\ runPc' = IF failure = "none" THEN "started" ELSE "failed"
          /\ laddr' = IF failure = "none" THEN ListenAddr(resolved) ELSE laddr
          /\ tunManager' = CASE failure = "none" -> "open"
                             [] failure = "udp" -> "closed"
                             [] OTHER -> tunManager
          /\ closeCalls' = IF failure = "udp"
                           THEN [closeCalls EXCEPT !["tun"] = @ + 1]
                           ELSE closeCalls
          /\ udpConn' = IF failure = "none" THEN "open" ELSE udpConn
          /\ wg' = IF failure = "none" THEN wg + 2 ELSE wg
          /\ inPc' = IF failure = "none" THEN "top" ELSE inPc
          /\ egPc' = IF failure = "none" THEN "top" ELSE egPc
    /\ UNCHANGED <<ctxDone, clPc, mtPc, tickerC, clients, heap, enc, snap,
                   snapIdx, nRecv, nRead, rx, authSeen, joined, sendLog,
                   encCalls, packet, regChanged, mode, clientsMu, pkgClients,
                   lastHeard, stopPc, stopCalls, ioAfterClose, stopBlocked>>
    /\ UNCHANGED cliVars
    /\ UNCHANGED <<codecVars, seqVars>>

\* Stop, first statement: c.cancel()
StopCancel ==
    /\ runPc = "started"
    /\ stopPc = "idle"
    /\ stopCalls < MaxStops
    /\ ctxDone' = TRUE
    /\ stopBlocked' = (stopBlocked \/ (inPc = "read" /\ egPc = "read"))
    /\ stopPc' = "closeUdp"
    /\ UNCHANGED <<udpConn, tunManager, wg, runPc, inPc, egPc, clPc, mtPc,
                   tickerC, clients, heap, enc, snap, snapIdx, nRecv, nRead, rx,
                   authSeen, joined, sendLog, encCalls, packet, regChanged, mode,
                   clientsMu, pkgClients, lastHeard, stopCalls, closeCalls,
                   ioAfterClose>>
    /\ UNCHANGED cliVars
    /\ UNCHANGED <<codecVars, seqVars, laddr>>

\* Stop: if udpConn != nil { udpConn.Close() }
StopCloseUDP ==
    /\ stopPc = "closeUdp"
    /\ udpConn' = CloseIfSet(udpConn)
    /\ closeCalls' = CountClose(closeCalls, "udp", udpConn)
    /\ stopPc' = "closeTun"
    /\ UNCHANGED <<ctxDone, tunManager, wg, runPc, inPc, egPc, clPc, mtPc,
                   tickerC, clients, heap, enc, snap, snapIdx, nRecv, nRead, rx,
                   authSeen, joined, sendLog, encCalls, packet, regChanged, mode,
                   clientsMu, pkgClients, lastHeard, stopCalls, ioAfterClose,
                   stopBlocked>>
    /\ UNCHANGED cliVars
    /\ UNCHANGED <<codecVars, seqVars, laddr>>

\* Stop: if tunMgr != nil { tunMgr.Close() }
StopCloseTun ==
    /\ stopPc = "closeTun"
    /\ tunManager' = CloseIfSet(tunManager)
    /\ closeCalls' = CountClose(closeCalls, "tun", tunManager)
    /\ stopPc' = "wait"
    /\ UNCHANGED <<ctxDone, udpConn, wg, runPc, inPc, egPc, clPc, mtPc, tickerC,
                   clients, heap, enc, snap, snapIdx, nRecv, nRead, rx, authSeen,
                   joined, sendLog, encCalls, packet, regChanged, mode,
                   clientsMu, pkgClients, lastHeard, stopCalls, ioAfterClose,
                   stopBlocked>>
    /\ UNCHANGED cliVars
    /\ UNCHANGED <<codecVars, seqVars, laddr>>

\* Stop: wg.Wait() returns, and Stop with it
StopReturn ==
    /\ stopPc = "wait"
    /\ WaitDone(wg)
    /\ stopPc' = "idle"
    /\ stopCalls' = stopCalls + 1
    /\ UNCHANGED <<ctxDone, udpConn, tunManager, wg, runPc, inPc, egPc, clPc,
                   mtPc, tickerC, clients, heap, enc, snap, snapIdx, nRecv,
                   nRead, rx, authSeen, joined, sendLog, encCalls, packet,
                   regChanged, mode, clientsMu, pkgClients, lastHeard,
                   closeCalls, ioAfterClose, stopBlocked>>
    /\ UNCHANGED cliVars
    /\ UNCHANGED <<codecVars, seqVars, laddr>>

\* loopUDPToTun: the select on ctx.Done(), then the call of Read
\* (ReadFromUDP)
LoopUDPToTunTop ==
    /\ mode \in {"client", "server"}
    /\ inPc = "top"
    /\ inPc' = LoopTop(inPc)
    /\ wg' = IF inPc' = "exited" THEN wg - 1 ELSE wg
    /\ rx' = NoDatagram
    /\ ioAfterClose' = (ioAfterClose \/ (~ctxDone /\ udpConn = "closed"))
    /\ UNCHANGED <<ctxDone, udpConn, tunManager, runPc, egPc, clPc, mtPc,
                   tickerC, clients, heap, enc, snap, snapIdx, nRecv, nRead,
                   authSeen, joined, sendLog, encCalls, packet, regChanged, mode,
                   clientsMu, pkgClients, lastHeard, stopPc, stopCalls,
                   closeCalls, stopBlocked>>
    /\ UNCHANGED cliVars
    /\ UNCHANGED <<codecVars, seqVars, laddr>>

\* loopUDPToTun: the read returns an error; continue
LoopUDPToTunErr ==
    /\ mode \in {"client", "server"}
    /\ inPc = "read"
    /\ inPc' = "top"
    /\ UNCHANGED <<ctxDone, udpConn, tunManager, wg, runPc, egPc, clPc, mtPc,
                   tickerC, clients, heap, enc, snap, snapIdx, nRecv, nRead, rx,
                   authSeen, joined, sendLog, encCalls, packet, regChanged, mode,
                   clientsMu, pkgClients, lastHeard, stopPc, stopCalls,
                   closeCalls, ioAfterClose, stopBlocked>>
    /\ UNCHANGED cliVars
    /\ UNCHANGED <<codecVars, seqVars, laddr>>

\* loopUDPToTun: the read returns datagram d from addr; the server stores
\* addr in s.clients under the write lock; Decrypt, its error discarded
LoopUDPToTunRecv ==
    /\ mode \in {"client", "server"}
    /\ inPc = "read"
    /\ udpConn = "open"
    /\ nRecv < MaxRecv
    /\ mode = "server" => clientsMu = 0
    /\ \E addr \in Senders, d \in Datagrams :
          LET dec == Decrypt(d)
          IN  /\ pkgClients' = IF mode = "server" THEN pkgClients \cup {addr}
                               ELSE pkgClients
              /\ lastHeard' = IF mode = "server"
                              THEN [lastHeard EXCEPT ![addr] = Now]
                              ELSE lastHeard
              /\ authSeen' = IF dec.err = "nil" THEN authSeen \cup {addr}
                             ELSE authSeen
              /\ rx' = [from |-> addr, ok |-> dec.err = "nil", wrote |-> FALSE]
    /\ nRecv' = nRecv + 1
    /\ inPc' = "write"
    /\ UNCHANGED <<ctxDone, udpConn, tunManager, wg, runPc, egPc, clPc, mtPc,
                   tickerC, clients, heap, enc, snap, snapIdx, nRead, joined,
                   sendLog, encCalls, packet, regChanged, mode, clientsMu,
                   stopPc, stopCalls, closeCalls, ioAfterClose, stopBlocked>>
    /\ UNCHANGED cliVars
    /\ UNCHANGED <<codecVars, seqVars, laddr>>

\* loopUDPToTun: tunMgr.WritePacket(dec)
LoopUDPToTunWrite ==
    /\ mode \in {"client", "server"}
    /\ inPc = "write"
    /\ rx' = [rx EXCEPT !.wrote = TRUE]
    /\ ioAfterClose' = (ioAfterClose \/ tunManager = "closed")
    /\ inPc' = "top"
    /\ UNCHANGED <<ctxDone, udpConn, tunManager, wg, runPc, egPc, clPc, mtPc,
                   tickerC, clients, heap, enc, snap, snapIdx, nRecv, nRead,
                   authSeen, joined, sendLog, encCalls, packet, regChanged, mode,
                   clientsMu, pkgClients, lastHeard, stopPc, stopCalls,
                   closeCalls, stopBlocked>>
    /\ UNCHANGED cliVars
    /\ UNCHANGED <<codecVars, seqVars, laddr>>

\* loopTunToUDP: the select on ctx.Done(), then the call of ReadPacket
LoopTunToUDPTop ==
    /\ mode \in {"client", "server"}
    /\ egPc = "top"
    /\ egPc' = LoopTop(egPc)
    /\ wg' = IF egPc' = "exited" THEN wg - 1 ELSE wg
    /\ packet' = <<>>
    /\ enc' = <<>>
    /\ snap' = <<>>
    /\ snapIdx' = 1
    /\ sendLog' = <<>>
    /\ ioAfterClose' = (ioAfterClose \/ (~ctxDone /\ tunManager = "closed"))
    /\ UNCHANGED <<ctxDone, udpConn, tunManager, runPc, inPc, clPc, mtPc,
                   tickerC, clients, heap, nRecv, nRead, rx, authSeen, joined,
                   encCalls, regChanged, mode, clientsMu, pkgClients, lastHeard,
                   stopPc, stopCalls, closeCalls, stopBlocked>>
    /\ UNCHANGED cliVars
    /\ UNCHANGED <<codecVars, seqVars, laddr>>

\* loopTunToUDP: ReadPacket returns an error; continue
LoopTunToUDPErr ==
    /\ mode \in {"client", "server"}
    /\ egPc = "read"
    /\ egPc' = "top"
    /\ UNCHANGED <<ctxDone, udpConn, tunManager, wg, runPc, inPc, clPc, mtPc,
                   tickerC, clients, heap, enc, snap, snapIdx, nRecv, nRead, rx,
                   authSeen, joined, sendLog, encCalls, packet, regChanged, mode,
                   clientsMu, pkgClients, lastHeard, stopPc, stopCalls,
                   closeCalls, ioAfterClose, stopBlocked>>
    /\ UNCHANGED cliVars
    /\ UNCHANGED <<codecVars, seqVars, laddr>>

\* loopTunToUDP: ReadPacket returns p (NoPacket: nil data, nil error); Encrypt,
\* its error discarded
LoopTunToUDPRead ==
    /\ mode \in {"client", "server"}
    /\ egPc = "read"
    /\ tunManager = "open"
    /\ nRead < MaxRead
    /\ \E p \in Packets \cup {NoPacket}, rnd \in Nonces \cup {RandFail} :
          /\ packet' = p
          /\ enc' = Encrypt(p, rnd).data
    /\ nRead' = nRead + 1
    /\ encCalls' = encCalls + 1
    /\ egPc' = IF mode = "client" THEN "write" ELSE "lock"
    /\ UNCHANGED <<ctxDone, udpConn, tunManager, wg, runPc, inPc, clPc, mtPc,
                   tickerC, clients, heap, snap, snapIdx, nRecv, rx, authSeen,
                   joined, sendLog, regChanged, mode, clientsMu, pkgClients,
                   lastHeard, stopPc, stopCalls, closeCalls, ioAfterClose,
                   stopBlocked>>
    /\ UNCHANGED cliVars
    /\ UNCHANGED <<codecVars, seqVars, laddr>>

\* Client.loopTunToUDP: c.udpConn.Write(enc), its result discarded
ClientWrite ==
    /\ mode = "client"
    /\ egPc = "write"
    /\ sendLog' = Append(sendLog, [to |-> ServerEndpoint, frame |-> enc,
                                   call |-> encCalls,
                                   ok |-> udpConn = "open"])
    /\ ioAfterClose' = (ioAfterClose \/ udpConn = "closed")
    /\ egPc' = "top"
    /\ UNCHANGED <<ctxDone, udpConn, tunManager, wg, runPc, inPc, clPc, mtPc,
                   tickerC, clients, heap, enc, snap, snapIdx, nRecv, nRead, rx,
                   authSeen, joined, encCalls, packet, regChanged, mode,
                   clientsMu, pkgClients, lastHeard, stopPc, stopCalls,
                   closeCalls, stopBlocked>>
    /\ UNCHANGED cliVars
    /\ UNCHANGED <<codecVars, seqVars, laddr>>

\* Server.loopTunToUDP: s.clientsMu.RLock() and the start of the range
\* over s.clients
ServerRLock ==
    /\ mode = "server"
    /\ egPc = "lock"
    /\ clientsMu' = clientsMu + 1
    /\ \E s \in SetOrders(pkgClients) :
          /\ snap' = s
          /\ egPc' = IF Len(s) = 0 THEN "unlock" ELSE "send"
    /\ snapIdx' = 1
    /\ UNCHANGED <<ctxDone, udpConn, tunManager, wg, runPc, inPc, clPc, mtPc,
                   tickerC, clients, heap, enc, nRecv, nRead, rx, authSeen,
                   joined, sendLog, encCalls, packet, regChanged, mode,
                   pkgClients, lastHeard, stopPc, stopCalls, closeCalls,
                   ioAfterClose, stopBlocked>>
    /\ UNCHANGED cliVars
    /\ UNCHANGED <<codecVars, seqVars, laddr>>

\* Server.loopTunToUDP: s.udpConn.WriteToUDP(enc, addr) inside the range,
\* the read lock held, its result discarded
ServerSend ==
    /\ mode = "server"
    /\ egPc = "send"
    /\ sendLog' = Append(sendLog, [to |-> snap[snapIdx], frame |-> enc,
                                   call |-> encCalls,
                                   ok |-> udpConn = "open"])
    /\ ioAfterClose' = (ioAfterClose \/ udpConn = "closed")
    /\ snapIdx' = snapIdx + 1
    /\ egPc' = IF snapIdx + 1 > Len(snap) THEN "unlock" ELSE "send"
    /\ UNCHANGED <<ctxDone, udpConn, tunManager, wg, runPc, inPc, clPc, mtPc,
                   tickerC, clients, heap, enc, snap, nRecv, nRead, rx, authSeen,
                   joined, encCalls, packet, regChanged, mode, clientsMu,
                   pkgClients, lastHeard, stopPc, stopCalls, closeCalls,
                   stopBlocked>>
    /\ UNCHANGED cliVars
    /\ UNCHANGED <<codecVars, seqVars, laddr>>

\* Server.loopTunToUDP: s.clientsMu.RUnlock()
ServerRUnlock ==
    /\ mode = "server"
    /\ egPc = "unlock"
    /\ clientsMu' = clientsMu - 1
    /\ egPc' = "top"
    /\ UNCHANGED <<ctxDone, udpConn, tunManager, wg, runPc, inPc, clPc, mtPc,
                   tickerC, clients, heap, enc, snap, snapIdx, nRecv, nRead, rx,
                   authSeen, joined, sendLog, encCalls, packet, regChanged, mode,
                   pkgClients, lastHeard, stopPc, stopCalls, closeCalls,
                   ioAfterClose, stopBlocked>>
    /\ UNCHANGED cliVars
    /\ UNCHANGED <<codecVars, seqVars, laddr>>

\* more than the timeout passes while the server's pumps are blocked in I/O
\* (or have exited): the last datagram of every registered peer recedes
PkgTick ==
    /\ mode = "server"
    /\ runPc = "started"
    /\ inPc \in {"read", "exited"}
    /\ egPc \in {"read", "exited"}
    /\ lastHeard' = [e \in Endpoints |->
                        IF e \in pkgClients THEN Recede(lastHeard[e])
                        ELSE lastHeard[e]]
    /\ lastHeard' # lastHeard
    /\ UNCHANGED <<ctxDone, udpConn, tunManager, wg, runPc, inPc, egPc, clPc,
                   mtPc, tickerC, clients, heap, enc, snap, snapIdx, nRecv,
                   nRead, rx, authSeen, joined, sendLog, encCalls, packet,
                   regChanged, mode, clientsMu, pkgClients, stopPc, stopCalls,
                   closeCalls, ioAfterClose, stopBlocked>>
    /\ UNCHANGED cliVars
    /\ UNCHANGED <<codecVars, seqVars, laddr>>

NextPkg ==
    \/ Start
    \/ StopCancel
    \/ StopCloseUDP
    \/ StopCloseTun
    \/ StopReturn
    \/ LoopUDPToTunTop
    \/ LoopUDPToTunErr
    \/ LoopUDPToTunRecv
    \/ LoopUDPToTunWrite
    \/ LoopTunToUDPTop
    \/ LoopTunToUDPErr
    \/ LoopTunToUDPRead
    \/ ClientWrite
    \/ ServerRLock
    \/ ServerSend
    \/ ServerRUnlock
    \/ PkgTick

SpecPkg == InitPkg /\ [][NextPkg]_vars

\* every goroutine that can take a step eventually takes one
FairSpecPkg == SpecPkg /\ WF_vars(NextPkg)

-----------------------------------------------------------------------------
(* server/main.go: the single-peer server, its two loops sharing clientAddr *)
(* without a lock                                                           *)

\* the values a load of clientAddr can yield: the stored value, or, when the
\* ingress loop is at its unsynchronised store, also the value being stored
LoadClientAddr ==
    IF inPc = "store" THEN {clientAddr, rx.from} ELSE {clientAddr}

InitSimple ==
    /\ mode = "simple"
    /\ ctxDone = FALSE
    /\ udpConn = "open"
    /\ tunManager = "open"
    /\ wg = 0
    /\ runPc = "running"
    /\ inPc = "read"
    /\ egPc = "read"
    /\ clPc = "idle"
    /\ mtPc = "idle"
    /\ tickerC = FALSE
    /\ clients = EmptyMap
    /\ heap = <<>>
    /\ enc = <<>>
    /\ snap = <<>>
    /\ snapIdx = 1
    /\ nRecv = 0
    /\ nRead = 0
    /\ rx = NoDatagram
    /\ authSeen = {}
    /\ joined = [e \in Endpoints |-> 0]
    /\ sendLog = <<>>
    /\ encCalls = 0
    /\ packet = <<>>
    /\ regChanged = TRUE
    /\ clientsMu = 0
    /\ pkgClients = {}
    /\ lastHeard = [e \in Endpoints |-> Now]
    /\ stopPc = "idle"
    /\ stopCalls = 0
    /\ closeCalls = [h \in {"udp", "tun"} |-> 0]
    /\ ioAfterClose = FALSE
    /\ stopBlocked = FALSE
    /\ InitCliVars
    /\ InitCodecVars
    /\ InitSeqVars
    /\ laddr = "none"

\* main, lines 51-55: a signal arrives and the process exits
SimpleExit ==
    /\ mode = "simple"
    /\ runPc = "running"
    /\ runPc' = "exited"
    /\ inPc' = "exited"
    /\ egPc' = "exited"
    /\ UNCHANGED <<ctxDone, udpConn, tunManager, wg, clPc, mtPc, tickerC,
                   clients, heap, enc, snap, snapIdx, nRecv, nRead, rx, authSeen,
                   joined, sendLog, encCalls, packet, regChanged, mode,
                   clientsMu, pkgClients, lastHeard, stopPc, stopCalls,
                   closeCalls, ioAfterClose, stopBlocked, clientAddr, connI,
                   dials, sleeps, elapsed, connId, reconnectCh, runErr>>
    /\ UNCHANGED <<codecVars, seqVars, laddr>>

\* ingress loop, lines 63-67: ReadFromUDP returns datagram d from addr
SimpleRecv ==
    /\ mode = "simple"
    /\ inPc = "read"
    /\ nRecv < MaxRecv
    /\ \E addr \in Endpoints, d \in Datagrams :
          rx' = [from |-> addr, ok |-> Decrypt(d).err = "nil", wrote |-> FALSE]
    /\ nRecv' = nRecv + 1
    /\ inPc' = "store"
    /\ UNCHANGED <<ctxDone, udpConn, tunManager, wg, runPc, egPc, clPc, mtPc,
                   tickerC, clients, heap, enc, snap, snapIdx, nRead, authSeen,
                   joined, sendLog, encCalls, packet, regChanged, mode,
                   clientsMu, pkgClients, lastHeard, stopPc, stopCalls,
                   closeCalls, ioAfterClose, stopBlocked, clientAddr, connI,
                   dials, sleeps, elapsed, connId, reconnectCh, runErr>>
    /\ UNCHANGED <<codecVars, seqVars, laddr>>

\* ingress loop, line 68: clientAddr = addr
SimpleStore ==
    /\ mode = "simple"
    /\ inPc = "store"
    /\ clientAddr' = rx.from
    /\ inPc' = "deliver"
    /\ UNCHANGED <<ctxDone, udpConn, tunManager, wg, runPc, egPc, clPc, mtPc,
                   tickerC, clients, heap, enc, snap, snapIdx, nRecv, nRead, rx,
                   authSeen, joined, sendLog, encCalls, packet, regChanged, mode,
                   clientsMu, pkgClients, lastHeard, stopPc, stopCalls,
                   closeCalls, ioAfterClose, stopBlocked, connI, dials, sleeps,
                   elapsed, connId, reconnectCh, runErr>>
    /\ UNCHANGED <<codecVars, seqVars, laddr>>

\* ingress loop, lines 70-79: Decrypt; on success the packet is written
\* to the interface
SimpleDeliver ==
    /\ mode = "simple"
    /\ inPc = "deliver"
    /\ rx' = [rx EXCEPT !.wrote = rx.ok]
    /\ authSeen' = IF rx.ok THEN authSeen \cup {rx.from} ELSE authSeen
    /\ inPc' = "read"
    /\ UNCHANGED <<ctxDone, udpConn, tunManager, wg, runPc, egPc, clPc, mtPc,
                   tickerC, clients, heap, enc, snap, snapIdx, nRecv, nRead,
                   joined, sendLog, encCalls, packet, regChanged, mode,
                   clientsMu, pkgClients, lastHeard, stopPc, stopCalls,
                   closeCalls, ioAfterClose, stopBlocked, clientAddr, connI,
                   dials, sleeps, elapsed, connId, reconnectCh, runErr>>
    /\ UNCHANGED <<codecVars, seqVars, laddr>>

\* egress loop, lines 86-95: iface.Read returns packet p; Encrypt
SimpleRead ==
    /\ mode = "simple"
    /\ egPc = "read"
    /\ nRead < MaxRead
    /\ \E p \in Packets, rnd \in Nonces \cup {RandFail} :
          LET e == Encrypt(p, rnd)
          IN  /\ packet' = p
              /\ enc' = e.data
              /\ egPc' = IF e.err = "nil" THEN "check" ELSE "read"
    /\ nRead' = nRead + 1
    /\ encCalls' = encCalls + 1
    /\ sendLog' = <<>>
    /\ UNCHANGED <<ctxDone, udpConn, tunManager, wg, runPc, inPc, clPc, mtPc,
                   tickerC, clients, heap, snap, snapIdx, nRecv, rx, authSeen,
                   joined, regChanged, mode, clientsMu, pkgClients, lastHeard,
                   stopPc, stopCalls, closeCalls, ioAfterClose, stopBlocked,
                   clientAddr, connI, dials, sleeps, elapsed, connId,
                   reconnectCh, runErr>>
    /\ UNCHANGED <<codecVars, seqVars, laddr>>

\* egress loop, line 96: if clientAddr.IP != nil
SimpleCheck ==
    /\ mode = "simple"
    /\ egPc = "check"
    /\ \E v \in LoadClientAddr :
          egPc' = IF v = "zero" THEN "read" ELSE "send"
    /\ UNCHANGED <<ctxDone, udpConn, tunManager, wg, runPc, inPc, clPc, mtPc,
                   tickerC, clients, heap, enc, snap, snapIdx, nRecv, nRead, rx,
                   authSeen, joined, sendLog, encCalls, packet, regChanged, mode,
                   clientsMu, pkgClients, lastHeard, stopPc, stopCalls,
                   closeCalls, ioAfterClose, stopBlocked, clientAddr, connI,
                   dials, sleeps, elapsed, connId, reconnectCh, runErr>>
    /\ UNCHANGED <<codecVars, seqVars, laddr>>

\* egress loop, line 97: conn.WriteToUDP(enc, clientAddr)
SimpleSend ==
    /\ mode = "simple"
    /\ egPc = "send"
    /\ \E v \in LoadClientAddr :
          sendLog' = Append(sendLog, [to |-> v, frame |-> enc,
                                      call |-> encCalls, ok |-> TRUE])
    /\ egPc' = "read"
    /\ UNCHANGED <<ctxDone, udpConn, tunManager, wg, runPc, inPc, clPc, mtPc,
                   tickerC, clients, heap, enc, snap, snapIdx, nRecv, nRead, rx,
                   authSeen, joined, encCalls, packet, regChanged, mode,
                   clientsMu, pkgClients, lastHeard, stopPc, stopCalls,
                   closeCalls, ioAfterClose, stopBlocked, clientAddr, connI,
                   dials, sleeps, elapsed, connId, reconnectCh, runErr>>
    /\ UNCHANGED <<codecVars, seqVars, laddr>>

NextSimple ==
    \/ SimpleExit
    \/ SimpleRecv
    \/ SimpleStore
    \/ SimpleDeliver
    \/ SimpleRead
    \/ SimpleCheck
    \/ SimpleSend

SpecSimple == InitSimple /\ [][NextSimple]_vars

-----------------------------------------------------------------------------
(* client: VPNClient.run with connectWithRetry, the two forwarding          *)
(* goroutines and the metrics goroutine                                     *)

ReconnectDelay == 5
MaxReconnectTries == 10

\* the for-condition of connectWithRetry: i < MaxReconnectTries
MoreTries(i) == i < MaxReconnectTries

\* connectWithRetry after a failed dial: sleep and retry, or give up
ShouldRetry(i) == i < MaxReconnectTries - 1

\* time.Sleep sleeping a second only
Slept_short(e) == e + 1

\* the elapsed time after time.Sleep(ReconnectDelay)
Slept(e) == e + ReconnectDelay

\* cleanup leaving the tunnel open
clientCleanup_leakTun(u, t, cc) ==
    [udpConn    |-> IF u # "nil" THEN "closed" ELSE u,
     tunManager |-> t,
     closeCalls |-> [cc EXCEPT !["udp"] = IF u # "nil" THEN @ + 1 ELSE @]]

\* VPNClient.cleanup on handles u and t with Close counts cc
clientCleanup(u, t, cc) ==
    [udpConn    |-> IF u # "nil" THEN "closed" ELSE u,
     tunManager |-> IF t # "nil" THEN "closed" ELSE t,
     closeCalls |-> [cc EXCEPT !["udp"] = IF u # "nil" THEN @ + 1 ELSE @,
                               !["tun"] = IF t # "nil" THEN @ + 1 ELSE @]]

\* a failed Write is tried again with the same frame
AfterWrite_retry(ok) == IF ok THEN "top" ELSE "write"

\* forwardTunToUDP ending when Write fails
AfterWrite_exitOnError(ok) == IF ok THEN "top" ELSE "exited"

\* forwardTunToUDP after c.udpConn.Write returned: the next iteration
AfterWrite(ok) == "top"

InitClient ==
    /\ mode = "reconnect"
    /\ ctxDone = FALSE
    /\ udpConn = "nil"
    /\ tunManager = "nil"
    /\ wg = 0
    /\ runPc = "crypto"
    /\ inPc = "idle"
    /\ egPc = "idle"
    /\ clPc = "idle"
    /\ mtPc = "idle"
    /\ tickerC = FALSE
    /\ clients = EmptyMap
    /\ heap = <<>>
    /\ enc = <<>>
    /\ snap = <<>>
    /\ snapIdx = 1
    /\ nRecv = 0
    /\ nRead = 0
    /\ rx = NoDatagram
    /\ authSeen = {}
    /\ joined = [e \in Endpoints |-> 0]
    /\ sendLog = <<>>
    /\ encCalls = 0
    /\ packet = <<>>
    /\ regChanged = TRUE
    /\ clientsMu = 0
    /\ pkgClients = {}
    /\ lastHeard = [e \in Endpoints |-> Now]
    /\ stopPc = "idle"
    /\ stopCalls = 0
    /\ closeCalls = [h \in {"udp", "tun"} |-> 0]
    /\ ioAfterClose = FALSE
    /\ stopBlocked = FALSE
    /\ InitCliVars
    /\ InitCodecVars
    /\ InitSeqVars
    /\ laddr = "none"

\* setupSignalHandling, lines 179-185: a signal arrives, c.cancel()
ClientCancel ==
    /\ mode = "reconnect"
    /\ ~ctxDone
    /\ runPc # "returned"
    /\ ctxDone' = TRUE
    /\ UNCHANGED <<udpConn, tunManager, wg, runPc, inPc, egPc, clPc, mtPc,
                   tickerC, clients, heap, enc, snap, snapIdx, nRecv, nRead, rx,
                   authSeen, joined, sendLog, encCalls, packet, regChanged, mode,
                   clientsMu, pkgClients, lastHeard, stopPc, stopCalls,
                   closeCalls, ioAfterClose, stopBlocked, clientAddr, connI,
                   dials, sleeps, elapsed, connId, reconnectCh, runErr>>
    /\ UNCHANGED <<codecVars, seqVars, laddr>>

\* run, lines 131-138: crypto.NewCipher succeeds or run returns its error
\* (the deferred cancel runs)
ClientCrypto ==
    /\ mode = "reconnect"
    /\ runPc = "crypto"
    /\ \E ok \in BOOLEAN :
          /\ runPc' = IF ok THEN "tunnel" ELSE "returned"
          /\ runErr' = IF ok THEN runErr ELSE "cipher"
          /\ ctxDone' = IF ok THEN ctxDone ELSE TRUE
    /\ UNCHANGED <<udpConn, tunManager, wg, inPc, egPc, clPc, mtPc, tickerC,
                   clients, heap, enc, snap, snapIdx, nRecv, nRead, rx, authSeen,
                   joined, sendLog, encCalls, packet, regChanged, mode,
                   clientsMu, pkgClients, lastHeard, stopPc, stopCalls,
                   closeCalls, ioAfterClose, stopBlocked, clientAddr, connI,
                   dials, sleeps, elapsed, connId, reconnectCh>>
    /\ UNCHANGED <<codecVars, seqVars, laddr>>

\* run starting the tasks right after the interface is set up
AfterTunnel_spawnUnconnected(ok) == IF ok THEN "spawn" ELSE "returned"

\* run, lines 142-150: after setupTunnel, connectWithRetry is next, or run
\* returns the tunnel error
AfterTunnel(ok) == IF ok THEN "connect" ELSE "returned"

\* run, lines 140-146: setupTunnel succeeds, or run returns its error
ClientTunnel ==
    /\ mode = "reconnect"
    /\ runPc = "tunnel"
    /\ \E ok \in BOOLEAN :
          /\ runPc' = AfterTunnel(ok)
          /\ tunManager' = IF ok THEN "open" ELSE tunManager
          /\ runErr' = IF ok THEN runErr ELSE "tunnel"
          /\ ctxDone' = IF ok THEN ctxDone ELSE TRUE
    /\ UNCHANGED <<udpConn, wg, inPc, egPc, clPc, mtPc, tickerC, clients, heap,
                   enc, snap, snapIdx, nRecv, nRead, rx, authSeen, joined,
                   sendLog, encCalls, packet, regChanged, mode, clientsMu,
                   pkgClients, lastHeard, stopPc, stopCalls, closeCalls,
                   ioAfterClose, stopBlocked, clientAddr, connI, dials, sleeps,
                   elapsed, connId, reconnectCh>>
    /\ UNCHANGED <<codecVars, seqVars, laddr>>

\* an iteration that does not look at ctx.Done()
TryAgain_ignoreCtx(i, done) == MoreTries(i)

\* connectWithRetry, lines 203-208: an iteration begins when tries are left
\* and the select finds ctx.Done() not closed
TryAgain(i, done) == MoreTries(i) /\ ~done

\* connectWithRetry, lines 203-208 and 228: the loop condition and the select
\* on ctx.Done(); when it returns an error, run returns it after the deferred
\* cleanup and cancel (lines 150-152)
ConnectTop ==
    /\ mode = "reconnect"
    /\ runPc = "connect"
    /\ IF TryAgain(connI, ctxDone)
       THEN /\ runPc' = "dial"
            /\ UNCHANGED <<udpConn, tunManager, closeCalls, runErr, ctxDone>>
       ELSE LET r == clientCleanup(udpConn, tunManager, closeCalls)
            IN  /\ runPc' = "returned"
                /\ runErr' = IF ctxDone THEN "canceled" ELSE "connect"
                /\ udpConn' = r.udpConn
                /\ tunManager' = r.tunManager
                /\ closeCalls' = r.closeCalls
                /\ ctxDone' = TRUE
    /\ UNCHANGED <<wg, inPc, egPc, clPc, mtPc, tickerC, clients, heap, enc, snap,
                   snapIdx, nRecv, nRead, rx, authSeen, joined, sendLog,
                   encCalls, packet, regChanged, mode, clientsMu, pkgClients,
                   lastHeard, stopPc, stopCalls, ioAfterClose, stopBlocked,
                   clientAddr, connI, dials, sleeps, elapsed, connId, reconnectCh>>
    /\ UNCHANGED <<codecVars, seqVars, laddr>>

\* connectWithRetry dialling again after a dial succeeded
AfterConnect_dialAgain(i) == "dial"

\* connectWithRetry, lines 223-226: the handle is stored and nil is returned,
\* so run goes on to start the pumps
AfterConnect(i) == "spawn"

\* connectWithRetry, lines 211-226: net.DialTimeout succeeds and the handle is
\* stored, or fails: sleep next if another try is left, else the error is
\* returned and run returns it after the deferred cleanup and cancel
ConnectDial ==
    /\ mode = "reconnect"
    /\ runPc = "dial"
    /\ dials' = dials + 1
    /\ \E ok \in BOOLEAN :
          IF ok
          THEN /\ udpConn' = "open"
               /\ connId' = dials + 1
               /\ runPc' = AfterConnect(connI)
               /\ UNCHANGED <<tunManager, closeCalls, runErr, ctxDone>>
          ELSE IF ShouldRetry(connI)
          THEN /\ runPc' = "sleep"
               /\ UNCHANGED <<udpConn, connId, tunManager, closeCalls,
                              runErr, ctxDone>>
          ELSE LET r == clientCleanup(udpConn, tunManager, closeCalls)
               IN  /\ runPc' = "returned"
                   /\ runErr' = "connect"
                   /\ udpConn' = r.udpConn
                   /\ tunManager' = r.tunManager
                   /\ closeCalls' = r.closeCalls
                   /\ ctxDone' = TRUE
                   /\ UNCHANGED connId
    /\ UNCHANGED <<wg, inPc, egPc, clPc, mtPc, tickerC, clients, heap, enc, snap,
                   snapIdx, nRecv, nRead, rx, authSeen, joined, sendLog,
                   encCalls, packet, regChanged, mode, clientsMu, pkgClients,
                   lastHeard, stopPc, stopCalls, ioAfterClose, stopBlocked,
                   clientAddr, connI, sleeps, elapsed, reconnectCh>>
    /\ UNCHANGED <<codecVars, seqVars, laddr>>

\* connectWithRetry, lines 217-218: time.Sleep(ReconnectDelay) returns;
\* continue, i++
ConnectSleep ==
    /\ mode = "reconnect"
    /\ runPc = "sleep"
    /\ sleeps' = sleeps + 1
    /\ elapsed' = Slept(elapsed)
    /\ connI' = connI + 1
    /\ runPc' = "connect"
    /\ UNCHANGED <<ctxDone, udpConn, tunManager, wg, inPc, egPc, clPc, mtPc,
                   tickerC, clients, heap, enc, snap, snapIdx, nRecv, nRead, rx,
                   authSeen, joined, sendLog, encCalls, packet, regChanged, mode,
                   clientsMu, pkgClients, lastHeard, stopPc, stopCalls,
                   closeCalls, ioAfterClose, stopBlocked, clientAddr, dials,
                   connId, reconnectCh, runErr>>
    /\ UNCHANGED <<codecVars, seqVars, laddr>>

\* run, lines 155-163: startPacketForwarding and startMetricsReporting
ClientSpawn ==
    /\ mode = "reconnect"
    /\ runPc = "spawn"
    /\ wg' = wg + 3
    /\ egPc' = "top"
    /\ inPc' = "top"
    /\ mtPc' = "wait"
    /\ runPc' = "wait"
    /\ UNCHANGED <<ctxDone, udpConn, tunManager, clPc, tickerC, clients, heap,
                   enc, snap, snapIdx, nRecv, nRead, rx, authSeen, joined,
                   sendLog, encCalls, packet, regChanged, mode, clientsMu,
                   pkgClients, lastHeard, stopPc, stopCalls, closeCalls,
                   ioAfterClose, stopBlocked, clientAddr, connI, dials, sleeps,
                   elapsed, connId, reconnectCh, runErr>>
    /\ UNCHANGED <<codecVars, seqVars, laddr>>

\* run, lines 170-172: c.wg.Wait() returns, then the deferred cleanup and
\* cancel
ClientWait ==
    /\ mode = "reconnect"
    /\ runPc = "wait"
    /\ wg = 0
    /\ LET r == clientCleanup(udpConn, tunManager, closeCalls)
       IN  /\ udpConn' = r.udpConn
           /\ tunManager' = r.tunManager
           /\ closeCalls' = r.closeCalls
    /\ ctxDone' = TRUE
    /\ runPc' = "returned"
    /\ UNCHANGED <<wg, inPc, egPc, clPc, mtPc, tickerC, clients, heap, enc, snap,
                   snapIdx, nRecv, nRead, rx, authSeen, joined, sendLog,
                   encCalls, packet, regChanged, mode, clientsMu, pkgClients,
                   lastHeard, stopPc, stopCalls, ioAfterClose, stopBlocked,
                   clientAddr, connI, dials, sleeps, elapsed, connId,
                   reconnectCh, runErr>>
    /\ UNCHANGED <<codecVars, seqVars, laddr>>

\* forwardTunToUDP, lines 251-260: the select on ctx.Done(), then ReadPacket
ClientTunToUDPTop ==
    /\ mode = "reconnect"
    /\ egPc = "top"
    /\ egPc' = LoopTop(egPc)
    /\ wg' = IF egPc' = "exited" THEN wg - 1 ELSE wg
    /\ packet' = <<>>
    /\ enc' = <<>>
    /\ sendLog' = <<>>
    /\ UNCHANGED <<ctxDone, udpConn, tunManager, runPc, inPc, clPc, mtPc,
                   tickerC, clients, heap, snap, snapIdx, nRecv, nRead, rx,
                   authSeen, joined, encCalls, regChanged, mode, clientsMu,
                   pkgClients, lastHeard, stopPc, stopCalls, closeCalls,
                   ioAfterClose, stopBlocked, clientAddr, connI, dials, sleeps,
                   elapsed, connId, reconnectCh, runErr>>
    /\ UNCHANGED <<codecVars, seqVars, laddr>>

\* forwardTunToUDP, lines 261-265: ReadPacket returns an error; continue
ClientTunToUDPReadErr ==
    /\ mode = "reconnect"
    /\ egPc = "read"
    /\ egPc' = "top"
    /\ UNCHANGED <<ctxDone, udpConn, tunManager, wg, runPc, inPc, clPc, mtPc,
                   tickerC, clients, heap, enc, snap, snapIdx, nRecv, nRead, rx,
                   authSeen, joined, sendLog, encCalls, packet, regChanged, mode,
                   clientsMu, pkgClients, lastHeard, stopPc, stopCalls,
                   closeCalls, ioAfterClose, stopBlocked, clientAddr, connI,
                   dials, sleeps, elapsed, connId, reconnectCh, runErr>>
    /\ UNCHANGED <<codecVars, seqVars, laddr>>

\* forwardTunToUDP, lines 260-271: ReadPacket returns p (NoPacket: nil data,
\* nil error); Encrypt, continue on its error
ClientTunToUDPRead ==
    /\ mode = "reconnect"
    /\ egPc = "read"
    /\ nRead < MaxClientRead
    /\ \E p \in Packets \cup {NoPacket}, rnd \in Nonces \cup {RandFail} :
          LET e == Encrypt(p, rnd)
          IN  /\ packet' = p
              /\ enc' = e.data
              /\ egPc' = IF e.err = "nil" THEN "write" ELSE "top"
    /\ nRead' = nRead + 1
    /\ encCalls' = encCalls + 1
    /\ UNCHANGED <<ctxDone, udpConn, tunManager, wg, runPc, inPc, clPc, mtPc,
                   tickerC, clients, heap, snap, snapIdx, nRecv, rx, authSeen,
                   joined, sendLog, regChanged, mode, clientsMu, pkgClients,
                   lastHeard, stopPc, stopCalls, closeCalls, ioAfterClose,
                   stopBlocked, clientAddr, connI, dials, sleeps, elapsed,
                   connId, reconnectCh, runErr>>
    /\ UNCHANGED <<codecVars, seqVars, laddr>>

\* a plain send on reconnectCh: the sender waits while the buffer is full
Notify_blocking(full) == [full |-> TRUE, blocked |-> full]

\* forwardTunToUDP, lines 276-279: select with a default branch on the
\* channel of capacity 1 (line 54); full says whether a token is buffered.
\* Afterwards a token is buffered and the sender has not waited
Notify(full) == [full |-> TRUE, blocked |-> FALSE]

\* forwardTunToUDP, lines 273-280: c.udpConn.Write(enc) succeeds or fails; on
\* failure a token is put into reconnectCh unless it is full
ClientTunToUDPWrite ==
    /\ mode = "reconnect"
    /\ egPc = "write"
    /\ \E ok \in BOOLEAN :
          LET n == IF ok THEN [full |-> reconnectCh, blocked |-> FALSE]
                   ELSE Notify(reconnectCh)
          IN  /\ sendLog' = Append(sendLog,
                     [to |-> ServerEndpoint, frame |-> enc,
                      call |-> encCalls, ok |-> ok, pending |-> reconnectCh])
              /\ reconnectCh' = n.full
              /\ egPc' = IF n.blocked THEN "blocked" ELSE AfterWrite(ok)
    /\ txSeq' = Append(txSeq, nRead)
    /\ UNCHANGED <<ctxDone, udpConn, tunManager, wg, runPc, inPc, clPc, mtPc,
                   tickerC, clients, heap, enc, snap, snapIdx, nRecv, nRead, rx,
                   authSeen, joined, encCalls, packet, regChanged, mode,
                   clientsMu, pkgClients, lastHeard, stopPc, stopCalls,
                   closeCalls, ioAfterClose, stopBlocked, clientAddr, connI,
                   dials, sleeps, elapsed, connId, runErr>>
    /\ UNCHANGED <<codecVars, ifSeq, laddr>>

\* forwardUDPToTun, lines 289-301: the select on ctx.Done(), SetReadDeadline
\* and the call of Read
ClientUDPToTunTop ==
    /\ mode = "reconnect"
    /\ inPc = "top"
    /\ inPc' = LoopTop(inPc)
    /\ wg' = IF inPc' = "exited" THEN wg - 1 ELSE wg
    /\ rx' = NoDatagram
    /\ UNCHANGED <<ctxDone, udpConn, tunManager, runPc, egPc, clPc, mtPc,
                   tickerC, clients, heap, enc, snap, snapIdx, nRecv, nRead,
                   authSeen, joined, sendLog, encCalls, packet, regChanged, mode,
                   clientsMu, pkgClients, lastHeard, stopPc, stopCalls,
                   closeCalls, ioAfterClose, stopBlocked, clientAddr, connI,
                   dials, sleeps, elapsed, connId, reconnectCh, runErr>>
    /\ UNCHANGED <<codecVars, seqVars, laddr>>

\* forwardUDPToTun, lines 302-308: Read times out after a second or returns
\* another error; continue
ClientUDPToTunErr ==
    /\ mode = "reconnect"
    /\ inPc = "read"
    /\ \E kind \in {"timeout", "error"} :
          rx' = [from |-> kind, ok |-> FALSE, wrote |-> FALSE]
    /\ inPc' = "top"
    /\ UNCHANGED <<ctxDone, udpConn, tunManager, wg, runPc, egPc, clPc, mtPc,
                   tickerC, clients, heap, enc, snap, snapIdx, nRecv, nRead,
                   authSeen, joined, sendLog, encCalls, packet, regChanged, mode,
                   clientsMu, pkgClients, lastHeard, stopPc, stopCalls,
                   closeCalls, ioAfterClose, stopBlocked, clientAddr, connI,
                   dials, sleeps, elapsed, connId, reconnectCh, runErr>>
    /\ UNCHANGED <<codecVars, seqVars, laddr>>

\* forwardUDPToTun, lines 301-318: Read returns datagram d; Decrypt, continue
\* on its error, else WritePacket
ClientUDPToTunRecv ==
    /\ mode = "reconnect"
    /\ inPc = "read"
    /\ nRecv < MaxRecv
    /\ \E d \in Datagrams :
          LET dec == Decrypt(d)
          IN  /\ rx' = [from |-> ServerEndpoint, ok |-> dec.err = "nil",
                        wrote |-> dec.err = "nil"]
              /\ authSeen' = IF dec.err = "nil"
                             THEN authSeen \cup {ServerEndpoint} ELSE authSeen
              /\ ifSeq' = IF dec.err = "nil"
                          THEN Append(ifSeq, nRecv + 1) ELSE ifSeq
    /\ nRecv' = nRecv + 1
    /\ inPc' = "top"
    /\ UNCHANGED <<ctxDone, udpConn, tunManager, wg, runPc, egPc, clPc, mtPc,
                   tickerC, clients, heap, enc, snap, snapIdx, nRead, joined,
                   sendLog, encCalls, packet, regChanged, mode, clientsMu,
                   pkgClients, lastHeard, stopPc, stopCalls, closeCalls,
                   ioAfterClose, stopBlocked, clientAddr, connI, dials, sleeps,
                   elapsed, connId, reconnectCh, runErr>>
    /\ UNCHANGED <<codecVars, txSeq, laddr>>

\* startMetricsReporting, lines 331-332: ctx.Done() is selected
ClientMetricsExit ==
    /\ mode = "reconnect"
    /\ mtPc = "wait"
    /\ ctxDone
    /\ mtPc' = "exited"
    /\ wg' = wg - 1
    /\ UNCHANGED <<ctxDone, udpConn, tunManager, runPc, inPc, egPc, clPc,
                   tickerC, clients, heap, enc, snap, snapIdx, nRecv, nRead, rx,
                   authSeen, joined, sendLog, encCalls, packet, regChanged, mode,
                   clientsMu, pkgClients, lastHeard, stopPc, stopCalls,
                   closeCalls, ioAfterClose, stopBlocked, clientAddr, connI,
                   dials, sleeps, elapsed, connId, reconnectCh, runErr>>
    /\ UNCHANGED <<codecVars, seqVars, laddr>>

\* the steps of run and connectWithRetry
ClientSupervisor ==
    \/ ClientCrypto
    \/ ClientTunnel
    \/ ConnectTop
    \/ ConnectDial
    \/ ConnectSleep
    \/ ClientSpawn
    \/ ClientWait

\* the steps of forwardTunToUDP
ClientEgress ==
    \/ ClientTunToUDPTop
    \/ ClientTunToUDPReadErr
    \/ ClientTunToUDPRead
    \/ ClientTunToUDPWrite

\* the steps of forwardUDPToTun
ClientIngress ==
    \/ ClientUDPToTunTop
    \/ ClientUDPToTunErr
    \/ ClientUDPToTunRecv

NextClient ==
    \/ ClientCancel
    \/ ClientSupervisor
    \/ ClientEgress
    \/ ClientIngress
    \/ ClientMetricsExit

SpecClient == InitClient /\ [][NextClient]_vars

\* every goroutine that can take a step eventually takes one
FairSpecClient ==
    /\ SpecClient
    /\ WF_vars(ClientSupervisor)
    /\ WF_vars(ClientEgress)
    /\ WF_vars(ClientIngress)
    /\ WF_vars(ClientMetricsExit)

-----------------------------------------------------------------------------
(* internal/crypto exercised on its own: Encrypt on a packet and the bytes  *)
(* rand.Reader delivers, Decrypt on the sealed frame, on the frame with one *)
(* byte altered, or on an input shorter than a nonce                        *)

Bytes == 0..255

\* the packets handed to Encrypt, the empty one included
CodecPackets == {<<>>, <<0>>, <<1, 2>>, <<255, 254, 253>>}

\* the nonces rand.Reader delivers
CodecNonces == Nonces \cup {NonceOf(255), [i \in 1..NonceSize |-> (37 * i) % 256]}

\* the inputs shorter than a nonce, the empty one included
ShortBytes == {0, 255}
ShortInputs == UNION {[1..n -> ShortBytes] : n \in 0..(NonceSize - 1)}

\* either a packet and random bytes for Encrypt, or a short input for Decrypt
InitCodec ==
    /\ mode = "codec"
    /\ ctxDone = FALSE
    /\ udpConn = "nil"
    /\ tunManager = "nil"
    /\ wg = 0
    /\ runPc = "idle"
    /\ inPc = "idle"
    /\ egPc = "idle"
    /\ clPc = "idle"
    /\ mtPc = "idle"
    /\ tickerC = FALSE
    /\ clients = EmptyMap
    /\ heap = <<>>
    /\ enc = <<>>
    /\ snap = <<>>
    /\ snapIdx = 1
    /\ nRecv = 0
    /\ nRead = 0
    /\ rx = NoDatagram
    /\ authSeen = {}
    /\ joined = [e \in Endpoints |-> 0]
    /\ sendLog = <<>>
    /\ encCalls = 0
    /\ packet = <<>>
    /\ regChanged = TRUE
    /\ clientsMu = 0
    /\ pkgClients = {}
    /\ lastHeard = [e \in Endpoints |-> Now]
    /\ stopPc = "idle"
    /\ stopCalls = 0
    /\ closeCalls = [h \in {"udp", "tun"} |-> 0]
    /\ ioAfterClose = FALSE
    /\ stopBlocked = FALSE
    /\ InitCliVars
    /\ InitSeqVars
    /\ laddr = "none"
    /\ codecResult = [err |-> "nil", data |-> <<>>]
    /\ \/ /\ codecPc = "input"
          /\ codecKind = "none"
          /\ codecPlain \in CodecPackets
          /\ codecRnd \in CodecNonces \cup {RandFail}
          /\ codecFrame = <<>>
       \/ /\ codecPc = "frame"
          /\ codecKind = "short"
          /\ codecPlain = <<>>
          /\ codecRnd = <<>>
          /\ codecFrame \in ShortInputs

\* Cipher.Encrypt, lines 27-34, on the packet and the random bytes drawn
CodecEncrypt ==
    /\ mode = "codec"
    /\ codecPc = "input"
    /\ LET e == Encrypt(codecPlain, codecRnd)
       IN  /\ codecResult' = e
           /\ codecFrame' = e.data
           /\ codecPc' = IF e.err = "nil" THEN "frame" ELSE "failed"
           /\ codecKind' = IF e.err = "nil" THEN "sealed" ELSE "none"
    /\ UNCHANGED <<ctxDone, udpConn, tunManager, wg, runPc, inPc, egPc, clPc,
                   mtPc, tickerC, clients, heap, enc, snap, snapIdx, nRecv,
                   nRead, rx, authSeen, joined, sendLog, encCalls, packet,
                   regChanged, mode, clientsMu, pkgClients, lastHeard, stopPc,
                   stopCalls, closeCalls, ioAfterClose, stopBlocked, clientAddr,
                   connI, dials, sleeps, elapsed, connId, reconnectCh, runErr,
                   codecPlain, codecRnd, txSeq, ifSeq>>
    /\ UNCHANGED laddr

\* the sealed frame reaches Decrypt with one byte altered: byte i, in the
\* nonce, the ciphertext or the tag, becomes b
CodecTamper ==
    /\ mode = "codec"
    /\ codecPc = "frame"
    /\ codecKind = "sealed"
    /\ \E i \in 1..Len(codecFrame), b \in Bytes :
          /\ b # codecFrame[i]
          /\ codecFrame' = [codecFrame EXCEPT ![i] = b]
    /\ codecKind' = "tampered"
    /\ UNCHANGED <<ctxDone, udpConn, tunManager, wg, runPc, inPc, egPc, clPc,
                   mtPc, tickerC, clients, heap, enc, snap, snapIdx, nRecv,
                   nRead, rx, authSeen, joined, sendLog, encCalls, packet,
                   regChanged, mode, clientsMu, pkgClients, lastHeard, stopPc,
                   stopCalls, closeCalls, ioAfterClose, stopBlocked, clientAddr,
                   connI, dials, sleeps, elapsed, connId, reconnectCh, runErr,
                   codecPlain, codecRnd, codecResult, codecPc, txSeq, ifSeq>>
    /\ UNCHANGED laddr

\* Cipher.Decrypt, lines 36-43, on the frame at hand
CodecDecrypt ==
    /\ mode = "codec"
    /\ codecPc = "frame"
    /\ codecResult' = Decrypt(codecFrame)
    /\ codecPc' = "opened"
    /\ UNCHANGED <<ctxDone, udpConn, tunManager, wg, runPc, inPc, egPc, clPc,
                   mtPc, tickerC, clients, heap, enc, snap, snapIdx, nRecv,
                   nRead, rx, authSeen, joined, sendLog, encCalls, packet,
                   regChanged, mode, clientsMu, pkgClients, lastHeard, stopPc,
                   stopCalls, closeCalls, ioAfterClose, stopBlocked, clientAddr,
                   connI, dials, sleeps, elapsed, connId, reconnectCh, runErr,
                   codecPlain, codecRnd, codecFrame, codecKind, txSeq, ifSeq>>
    /\ UNCHANGED laddr

NextCodec ==
    \/ CodecEncrypt
    \/ CodecTamper
    \/ CodecDecrypt

SpecCodec == InitCodec /\ [][NextCodec]_vars

-----------------------------------------------------------------------------
(* Properties of cmd/server *)

Registered == DOMAIN clients

\* time since the last datagram of registered endpoint k, as the sweep computes it
Idle(k) == Now - heap[clients[k]].lastSeen

\* number of WriteToUDP calls to endpoint e for the packet last read
SendsTo(e) == Cardinality({i \in 1..Len(sendLog) : sendLog[i].to = e})

\* C1: every endpoint in the peer registry has sent at least one datagram
\* that passed authentication (a datagram that fails decryption registers
\* nothing)
C1_RegisteredImpliesAuthentic == Registered \subseteq authSeen

\* C6: when the fan-out of one interface packet has completed with no
\* registry write since its snapshot, exactly one SendTo was issued to each
\* registered peer and none to any other endpoint
C6_FanOutOncePerPeer ==
    (egPc = "top" /\ ~regChanged) =>
        \A e \in Endpoints : SendsTo(e) = IF e \in Registered THEN 1 ELSE 0

C6_Witness ==
    /\ egPc = "top"
    /\ ~regChanged
    /\ Registered = {"A", "B"}
    /\ SendsTo("A") = 1
    /\ SendsTo("B") = 1

C8_JoinOnce ==
    [][/\ (nRecv' = nRecv + 1 /\ rx'.ok) =>
            /\ rx'.from \in DOMAIN clients'
            /\ DOMAIN clients' = Registered \cup {rx'.from}
            /\ \A e \in Endpoints :
                  joined'[e] = IF e = rx'.from /\ e \notin Registered
                               THEN joined[e] + 1 ELSE joined[e]
            /\ Len(heap') = IF rx'.from \in Registered
                            THEN Len(heap) ELSE Len(heap) + 1
       /\ (egPc = "snapshot" /\ egPc' # "snapshot") =>
            /\ {heap[snap'[i]].addr : i \in 1..Len(snap')} = Registered
            /\ Len(snap') = Cardinality(Registered)
      ]_vars

C8_Witness ==
    /\ "A" \in Registered
    /\ joined["A"] = 1
    /\ heap[clients["A"]].packetsRecv = 2
    /\ rx.from = "A"
    /\ rx.ok

\* C9: the sweep removes every registered peer idle for longer than the
\* timeout, retains every other peer with its record, adds none and changes
\* no record
C9_EvictExactlyStale ==
    [][(tickerC /\ ~tickerC') =>
          /\ \A k \in Registered :
                IF Idle(k) > ClientTimeoutDuration
                THEN k \notin DOMAIN clients'
                ELSE k \in DOMAIN clients' /\ clients'[k] = clients[k]
          /\ DOMAIN clients' \subseteq Registered
          /\ heap' = heap
      ]_vars

C9_Witness ==
    /\ ~tickerC
    /\ joined["A"] = 1
    /\ "A" \notin Registered
    /\ "B" \in Registered
    /\ Idle("B") = ClientTimeoutDuration

\* C11: a registry entry is removed only by the eviction sweep, and an
\* endpoint entering the registry (for the first time or after an eviction)
\* gets a newly allocated record with receive counter 1 and sent counter 0
\* and one "New client connected" event, every older record left as it was
C11_EvictedPeerRejoinsFresh ==
    [][/\ (\E k \in Registered : k \notin DOMAIN clients') =>
              (tickerC /\ ~tickerC')
       /\ \A e \in Endpoints :
             (e \notin Registered /\ e \in DOMAIN clients') =>
                 /\ clients'[e] = Len(heap) + 1
                 /\ heap'[clients'[e]] = [addr |-> e, lastSeen |-> Now,
                                          packetsSent |-> 0, packetsRecv |-> 1]
                 /\ joined'[e] = joined[e] + 1
                 /\ \A i \in 1..Len(heap) : heap'[i] = heap[i]
      ]_vars

C11_Witness ==
    /\ joined["A"] = 2
    /\ "A" \in Registered
    /\ clients["A"] = 2
    /\ heap[1].addr = "A"
    /\ heap[2].packetsRecv = 1
    /\ heap[2].packetsSent = 0

\* C12: every successful send to a registered peer refreshes that peer's
\* last-seen timestamp together with its sent counter
C12_SendRefreshesLastSeen ==
    [][\A i \in 1..Len(heap) :
          heap'[i].packetsSent > heap[i].packetsSent =>
              heap'[i].lastSeen = Now
      ]_vars

\* C14: the fan-out holds no pointer to a registry record across its sends:
\* the sent counter of a record is incremented only while the registry still
\* refers to that record
C14_EvictedRecordNotMutated ==
    [][\A i \in 1..Len(heap) :
          heap'[i].packetsSent # heap[i].packetsSent =>
              \E k \in Registered : clients[k] = i
      ]_vars

\* C19: after the shutdown signal is raised while the server is running,
\* both pumps, the cleanup task and the metrics task exit, run returns and
\* both handles are closed
C19_ServerShutdownCompletes ==
    (mode = "cmd" /\ ctxDone /\ runPc = "wait") ~>
        /\ runPc = "returned"
        /\ inPc = "exited"
        /\ egPc = "exited"
        /\ clPc = "exited"
        /\ mtPc = "exited"
        /\ udpConn = "closed"
        /\ tunManager = "closed"

C19_Witness ==
    /\ mode = "cmd"
    /\ runPc = "returned"
    /\ inPc = "exited"
    /\ egPc = "exited"
    /\ clPc = "exited"
    /\ mtPc = "exited"
    /\ udpConn = "closed"
    /\ tunManager = "closed"
    /\ Registered # {}

\* no pump, metrics or eviction task has been spawned
NothingSpawned ==
    /\ inPc = "idle"
    /\ egPc = "idle"
    /\ mtPc = "idle"
    /\ clPc = "idle"
    /\ wg = 0

\* C23: cmd/server starts in the order cipher, interface, UDP socket, tasks.
\* A later resource is never held without the earlier one, tasks run only
\* once the socket is bound, and when run has returned from a failed step
\* no task was spawned, no socket was bound and the interface, if it had
\* been created, has been closed exactly once.
C23_StartupRollback ==
    mode = "cmd" =>
        /\ runPc \in {"crypto", "tunnel"} => tunManager = "nil"
        /\ runPc \in {"crypto", "tunnel", "udp"} =>
               (udpConn = "nil" /\ NothingSpawned)
        /\ udpConn # "nil" => tunManager # "nil"
        /\ ~NothingSpawned => udpConn # "nil"
        /\ runPc = "returned" =>
               /\ NothingSpawned
               /\ udpConn = "nil"
               /\ closeCalls["udp"] = 0
               /\ tunManager \in {"nil", "closed"}
               /\ closeCalls["tun"] = (IF tunManager = "closed" THEN 1 ELSE 0)
               /\ nRecv = 0
               /\ nRead = 0

\* binding the UDP socket failed after the interface had been created: run
\* has returned and the interface is closed
C23_Witness ==
    /\ mode = "cmd"
    /\ runPc = "returned"
    /\ tunManager = "closed"
    /\ closeCalls["tun"] = 1

\* C32: in the fan-out of cmd/server a failed send changes no counter and
\* the range loop goes on with the next record of the snapshot; a
\* successful send is followed by exactly one increment of packetsSent, of
\* the record the frame was sent through, and packetsSent changes in no
\* other way.
C32_FailedSendSkipsOnlyItsPeer ==
    [][ mode = "cmd" =>
          /\ (egPc = "send" /\ Len(sendLog') = Len(sendLog) + 1) =>
                /\ heap' = heap
                /\ sendLog'[Len(sendLog')].to = heap[snap[snapIdx]].addr
                /\ sendLog'[Len(sendLog')].ok =>
                      (egPc' = "inc" /\ snapIdx' = snapIdx)
                /\ ~sendLog'[Len(sendLog')].ok =>
                      /\ snapIdx' = snapIdx + 1
                      /\ egPc' = IF snapIdx < Len(snap) THEN "send" ELSE "top"
          /\ \A r \in 1..Len(heap) :
                heap'[r].packetsSent # heap[r].packetsSent =>
                    /\ egPc = "inc"
                    /\ r = snap[snapIdx]
                    /\ heap'[r].packetsSent = heap[r].packetsSent + 1
                    /\ Len(sendLog) = snapIdx
                    /\ sendLog[snapIdx].ok
                    /\ sendLog[snapIdx].to = heap[r].addr
          /\ (egPc = "inc" /\ egPc' # "inc") =>
                heap'[snap[snapIdx]].packetsSent
                    = heap[snap[snapIdx]].packetsSent + 1 ]_vars

\* a fan-out over two peers has completed: the first send failed and was
\* not counted, the second succeeded and was counted once
C32_Witness ==
    /\ mode = "cmd"
    /\ egPc = "top"
    /\ Len(snap) = 2
    /\ Len(sendLog) = 2
    /\ ~sendLog[1].ok
    /\ sendLog[2].ok
    /\ heap[snap[1]].packetsSent = 0
    /\ heap[snap[2]].packetsSent = 1

-----------------------------------------------------------------------------
(* Properties of pkg/vpn *)

\* the endpoints in the peer registry of whichever server is running
RegisteredPeers == IF mode = "cmd" THEN DOMAIN clients ELSE pkgClients

\* time since the last datagram of registered endpoint e
IdleFor(e) ==
    IF mode = "cmd" THEN Now - heap[clients[e]].lastSeen
    ELSE Now - lastHeard[e]

\* C2: a datagram whose decryption failed is dropped: WritePacket is never
\* called for it
C2_FailedDecryptNeverWritten == rx.wrote => rx.ok

\* C3: the handles are closed only after both loops have exited, and no loop
\* issues an I/O call on a handle after its Close
C3_CloseAfterLoopsExit ==
    /\ (runPc = "started" /\ (udpConn = "closed" \/ tunManager = "closed")) =>
          (inPc = "exited" /\ egPc = "exited")
    /\ ~ioAfterClose

\* C4: when a Stop() called while both pumps were blocked in their reads has
\* returned, both loops have exited and both handles are closed
C4_StopReturnsAfterLoopsExit ==
    (stopBlocked /\ stopCalls >= 1) =>
        /\ inPc = "exited"
        /\ egPc = "exited"
        /\ wg = 0
        /\ udpConn = "closed"
        /\ tunManager = "closed"

C4_Witness ==
    /\ stopBlocked
    /\ stopCalls = 1
    /\ stopPc = "idle"
    /\ inPc = "exited"
    /\ egPc = "exited"

\* C5: a second Stop() performs no further Close on either handle: no handle
\* is ever closed more than once
C5_SecondStopClosesNothing ==
    \A h \in {"udp", "tun"} : closeCalls[h] <= 1

\* C10: a registered peer that has been silent for longer than the timeout
\* is eventually removed from the registry, unless it is heard from again
C10_IdlePeerEventuallyEvicted ==
    \A e \in Endpoints :
        (e \in RegisteredPeers /\ IdleFor(e) > ClientTimeoutDuration)
            ~> (e \notin RegisteredPeers \/ IdleFor(e) <= ClientTimeoutDuration)

\* C13: no transport send is performed while the sending task holds the
\* peer-registry lock
C13_NoSendUnderRegistryLock ==
    [][Len(sendLog') > Len(sendLog) => clientsMu = 0]_vars

-----------------------------------------------------------------------------
(* Properties of the registry lock discipline *)

\* the tasks at a write of the peer state that no lock serialises with the
\* task's neighbours (a locked write is one atomic step of its task)
RegistryWriters ==
    IF mode = "simple" /\ inPc = "store" THEN {"ingress"} ELSE {}

\* the tasks at a read of the peer state, or inside a read-locked section
RegistryReaders ==
    CASE mode = "simple" -> IF egPc \in {"check", "send"} THEN {"egress"} ELSE {}
      [] mode = "server" -> IF clientsMu > 0 THEN {"egress"} ELSE {}
      [] OTHER -> {}

\* C15: at most one task writes the peer state at a time, and no task reads
\* it while another task writes it
C15_RegistryMutualExclusion ==
    /\ Cardinality(RegistryWriters) <= 1
    /\ RegistryWriters # {} => RegistryReaders = {}

-----------------------------------------------------------------------------
(* Properties of the reconnecting client *)

\* the client holds a transport handle obtained by connectWithRetry
Connected == connId # 0

\* no goroutine of the client is left: run has returned and every goroutine
\* it started has exited
AllTasksReturned ==
    /\ runPc = "returned"
    /\ inPc \in {"idle", "exited"}
    /\ egPc \in {"idle", "exited"}
    /\ mtPc \in {"idle", "exited"}

\* C16: when the first k dials fail and dial k+1 succeeds (k < MaxReconnectTries),
\* the client is connected after exactly k+1 dials, has slept the retry
\* delay exactly k times (at least k * ReconnectDelay seconds), and holds
\* the handle of dial k+1
C16_ConnectedAfterKRetries ==
    Connected =>
        /\ dials <= MaxReconnectTries
        /\ connId = dials
        /\ sleeps = dials - 1
        /\ connI = dials - 1
        /\ elapsed >= (dials - 1) * ReconnectDelay
        /\ udpConn # "nil"

C16_Witness ==
    /\ Connected
    /\ runPc = "spawn"
    /\ dials = 4
    /\ sleeps = 3
    /\ elapsed = 15
    /\ connId = 4

\* C17: at most MaxReconnectTries dials are ever made, and when all of them
\* have failed run has returned the connection error holding no transport
\* handle, no goroutine was started, and the interface was closed
C17_AllTriesFail ==
    /\ dials <= MaxReconnectTries
    /\ (dials = MaxReconnectTries /\ ~Connected) =>
          /\ runPc = "returned"
          /\ runErr = "connect"
          /\ udpConn = "nil"
          /\ inPc = "idle"
          /\ egPc = "idle"
          /\ mtPc = "idle"
          /\ wg = 0
          /\ tunManager = "closed"
          /\ closeCalls = [h \in {"udp", "tun"} |-> IF h = "tun" THEN 1 ELSE 0]

C17_Witness ==
    /\ dials = MaxReconnectTries
    /\ sleeps = MaxReconnectTries - 1
    /\ ~Connected
    /\ udpConn = "nil"
    /\ runPc = "returned"
    /\ runErr = "connect"
    /\ tunManager = "closed"

C20_IOFailureKeepsConnection ==
    [][/\ (Len(sendLog') > Len(sendLog) /\ ~sendLog'[Len(sendLog')].ok) =>
            /\ egPc' = "top"
            /\ udpConn' = udpConn
            /\ connId' = connId
            /\ dials' = dials
            /\ runPc' = runPc
            /\ inPc' = inPc
       /\ (inPc = "read" /\ inPc' # "read" /\ nRecv' = nRecv) =>
            /\ inPc' = "top"
            /\ udpConn' = udpConn
            /\ connId' = connId
            /\ dials' = dials
            /\ runPc' = runPc
            /\ egPc' = egPc
      ]_vars

C20_Witness ==
    /\ mode = "reconnect"
    /\ Connected
    /\ udpConn = "open"
    /\ runPc = "wait"
    /\ egPc = "top"
    /\ Len(sendLog) = 1
    /\ ~sendLog[1].ok
    /\ reconnectCh
    /\ rx.from = "error"

-----------------------------------------------------------------------------
(* Properties of the pumps of the reconnecting client *)

\* C21: a pump of the reconnecting client returns only from the top of its
\* loop and only when the context is cancelled: no read error, timeout,
\* Encrypt or Decrypt failure or failed Write makes it return, and the step
\* in which one pump returns leaves the other pump where it is.
C21_PumpExitsOnlyOnCancel ==
    [][ /\ (inPc' = "exited" /\ inPc # "exited")
            => (inPc = "top" /\ ctxDone /\ egPc' = egPc)
        /\ (egPc' = "exited" /\ egPc # "exited")
            => (egPc = "top" /\ ctxDone /\ inPc' = inPc) ]_vars

\* the ingress pump has returned after the cancellation while the egress
\* pump still holds a frame it is about to write
C21_Witness ==
    /\ mode = "reconnect"
    /\ ctxDone
    /\ inPc = "exited"
    /\ egPc = "write"

-----------------------------------------------------------------------------
(* Properties of the single-peer server under forged datagrams *)

\* the endpoints that have sent a datagram that decrypts, the one the
\* ingress loop is busy with included
AuthenticSenders ==
    authSeen \cup (IF inPc \in {"store", "deliver"} /\ rx.ok
                   THEN {rx.from} ELSE {})

\* C22: a datagram that fails decryption does not change where egress
\* traffic goes: every frame the single-peer server sends is addressed to
\* an endpoint that has sent a datagram that decrypts.
C22_EgressOnlyToAuthenticSenders ==
    mode = "simple" =>
        \A i \in 1..Len(sendLog) : sendLog[i].to \in AuthenticSenders

\* the numbers in s grow strictly from left to right
StrictlyIncreasing(s) == \A i, j \in 1..Len(s) : i < j => s[i] < s[j]

\* C24: in each direction the reconnecting client forwards in the order it
\* read: the packets handed to Write are, in order and without repetition,
\* some of the packets read from the interface, and the datagrams handed to
\* WritePacket are, in order and without repetition, some of the datagrams
\* received.
C24_ForwardedInReadOrder ==
    mode = "reconnect" =>
        /\ StrictlyIncreasing(txSeq)
        /\ \A i \in 1..Len(txSeq) : txSeq[i] \in 1..nRead
        /\ StrictlyIncreasing(ifSeq)
        /\ \A i \in 1..Len(ifSeq) : ifSeq[i] \in 1..nRecv

\* both packets read were written in order; of the two datagrams received
\* the first was dropped and the second written
C24_Witness ==
    /\ mode = "reconnect"
    /\ txSeq = <<1, 2>>
    /\ ifSeq = <<2>>

-----------------------------------------------------------------------------
(* Properties of the egress pumps around Encrypt and ReadPacket *)

\* C25: a packet for which Encrypt returned an error is not sent: the
\* pkg/vpn server hands no empty frame to WriteToUDP.
C25_NoSendAfterFailedEncrypt ==
    mode = "server" =>
        \A i \in 1..Len(sendLog) : sendLog[i].frame # <<>>

-----------------------------------------------------------------------------
(* Properties of internal/crypto *)

\* C26: Decrypt on an input shorter than a nonce, the empty input included,
\* returns the unexpected-EOF error and no data; the AEAD open is not
\* attempted, so the error is never the authentication failure.
C26_ShortInputRejected ==
    (mode = "codec" /\ codecPc = "opened" /\ Len(codecFrame) < NonceSize)
        => codecResult = [err |-> "ErrUnexpectedEOF", data |-> <<>>]

\* Decrypt has returned on the empty input
C26_Witness ==
    /\ mode = "codec"
    /\ codecPc = "opened"
    /\ codecKind = "short"
    /\ codecFrame = <<>>

\* C27: the frame Encrypt returns is the nonce followed by the sealed
\* ciphertext and tag, and Decrypt of that frame returns the packet that
\* was encrypted, for every packet (the empty one included) and nonce.
C27_RoundTrip ==
    (mode = "codec" /\ codecKind = "sealed") =>
        /\ SubSeq(codecFrame, 1, NonceSize) = codecRnd
        /\ SubSeq(codecFrame, NonceSize + 1, Len(codecFrame))
              = Seal(<<>>, codecRnd, codecPlain)
        /\ Len(codecFrame) = NonceSize + Len(codecPlain) + TagSize
        /\ codecPc = "opened" =>
              codecResult = [err |-> "nil", data |-> codecPlain]

\* Decrypt has returned on the frame sealed from the empty packet
C27_Witness ==
    /\ mode = "codec"
    /\ codecPc = "opened"
    /\ codecKind = "sealed"
    /\ codecPlain = <<>>
    /\ codecResult.err = "nil"

\* C28: Decrypt of a sealed frame with one byte altered, in the nonce, the
\* ciphertext or the tag, returns an error and no plaintext.
C28_TamperDetected ==
    (mode = "codec" /\ codecPc = "opened" /\ codecKind = "tampered")
        => (codecResult.err # "nil" /\ codecResult.data = <<>>)

\* Decrypt has returned on a frame whose first ciphertext byte was altered
C28_Witness ==
    /\ mode = "codec"
    /\ codecPc = "opened"
    /\ codecKind = "tampered"
    /\ Len(codecPlain) > 0
    /\ codecFrame[NonceSize + 1] # Encrypt(codecPlain, codecRnd).data[NonceSize + 1]

-----------------------------------------------------------------------------
(* Properties of the reconnecting client's transport handle *)

\* C29: the reconnecting client holds at most one transport handle in its
\* life: c.udpConn is assigned only while it is nil, a failed dial leaves it
\* nil, and once assigned the handle is never replaced, only closed.
C29_AtMostOneConnection ==
    [][ mode = "reconnect" =>
          /\ connId' # connId => (connId = 0 /\ udpConn = "nil")
          /\ (udpConn' = "open" /\ udpConn # "open") =>
                (udpConn = "nil" /\ connId = 0 /\ connId' = dials')
          /\ (dials' # dials /\ connId' = connId) =>
                (connId = 0 /\ udpConn' = "nil")
          /\ udpConn # "nil" => (connId # 0 /\ dials' = dials)
          /\ closeCalls'["udp"] <= 1 ]_vars

\* the third dial gave the only handle the client ever held; run has
\* returned after closing it once
C29_Witness ==
    /\ mode = "reconnect"
    /\ runPc = "returned"
    /\ connId = 3
    /\ dials = 3
    /\ udpConn = "closed"
    /\ closeCalls["udp"] = 1

\* C30: when ReadPacket returns no data and no error, cmd/server encrypts
\* nothing and sends nothing: no frame it sends is the sealing of the empty
\* packet.
C30_NoDataNothingSent ==
    mode = "cmd" =>
        \A i \in 1..Len(sendLog) :
            sendLog[i].ok =>
                Decrypt(sendLog[i].frame) # [err |-> "nil", data |-> NoPacket]

-----------------------------------------------------------------------------
(* Properties of the reconnecting client's supervisor *)

\* a pump or the metrics task of the reconnecting client is started and has
\* not returned
TaskRunning ==
    \/ inPc \notin {"idle", "exited"}
    \/ egPc \notin {"idle", "exited"}
    \/ mtPc \notin {"idle", "exited"}

\* C31: the tasks of the reconnecting client exist only after the cipher,
\* the interface and the connection were all set up without error, and
\* while any of them is running both handles are set and open.
C31_TasksRunOnlyFullySetUp ==
    mode = "reconnect" =>
        /\ (inPc # "idle" \/ egPc # "idle" \/ mtPc # "idle") =>
              /\ runPc \in {"wait", "returned"}
              /\ runErr = "nil"
              /\ Connected
              /\ udpConn # "nil"
              /\ tunManager # "nil"
        /\ TaskRunning => (udpConn = "open" /\ tunManager = "open")

\* both pumps are at their reads and the metrics task waits, on the handle
\* the second dial gave
C31_Witness ==
    /\ mode = "reconnect"
    /\ inPc = "read"
    /\ egPc = "read"
    /\ mtPc = "wait"
    /\ udpConn = "open"
    /\ tunManager = "open"
    /\ connId = 2

\* C33: a failed Write never makes the egress pump of the reconnecting
\* client wait on reconnectCh: after a failed Write, whether or not a token
\* was already buffered, one token is buffered and the pump is at the top of
\* its loop, and the pump is never found waiting on the channel.
C33_NotifyNeverBlocks ==
    mode = "reconnect" =>
        /\ egPc # "blocked"
        /\ reconnectCh \in BOOLEAN
        /\ \A i \in 1..Len(sendLog) :
              ~sendLog[i].ok => (reconnectCh /\ egPc = "top")

\* the Write of the second packet failed while the token of an earlier
\* failure was still buffered, and the pump is back at the top of its loop
C33_Witness ==
    /\ mode = "reconnect"
    /\ txSeq = <<1, 2>>
    /\ Len(sendLog) = 1
    /\ ~sendLog[1].ok
    /\ sendLog[1].pending
    /\ reconnectCh
    /\ egPc = "top"

\* C34: when the context is cancelled before an iteration of the retry loop
\* begins, also when that happened during the sleep between two dials, the
\* iteration makes no dial: connectWithRetry returns the cancellation error,
\* the client is not connected and holds no transport handle.
C34_CancelStopsRetry ==
    [][ mode = "reconnect" =>
          /\ (runPc = "connect" /\ runPc' # "connect" /\ ctxDone) =>
                /\ runPc' = "returned"
                /\ runErr' = "canceled"
                /\ dials' = dials
                /\ connId' = 0
                /\ udpConn' = "nil"
          /\ (runPc = "connect" /\ runPc' = "dial") => ~ctxDone
          /\ dials' # dials => runPc = "dial"
          /\ runErr' = "canceled" =>
                (~Connected' /\ udpConn' = "nil" /\ ~TaskRunning') ]_vars

\* the signal came while the client slept after its second failed dial:
\* run has returned the cancellation error after two dials
C34_Witness ==
    /\ mode = "reconnect"
    /\ runPc = "returned"
    /\ runErr = "canceled"
    /\ dials = 2
    /\ sleeps = 2
    /\ udpConn = "nil"
    /\ connId = 0

-----------------------------------------------------------------------------
(* Properties of pkg/vpn Server.Start *)

\* C35: a pkg/vpn server that has started listens on the configured
\* address: when the address cannot be resolved or bound Start fails, so a
\* started server is never on another address.
C35_ListensOnConfiguredAddress ==
    (mode = "server" /\ runPc = "started") => laddr = "configured"

====
